---- MODULE Spec2Model ----
(***************************************************************************)
(* p2p-game-engine: the Room state machine over a replicated document.     *)
(*                                                                         *)
(* Every peer holds a replica of the document (iroh-docs: one entry per    *)
(* (key, author), the latest timestamp wins per key), a blob store with    *)
(* the contents it has fetched, the stream of LiveEvents its pipeline      *)
(* task consumes, the pending-by-hash table of deferred entries, the       *)
(* host_disconnected flag and the UI event channel.                        *)
(*                                                                         *)
(* Values are modelled as the byte strings postcard produces (sequences    *)
(* of small naturals); a content hash is modelled by the content itself.   *)
(* The game logic plugged in is the counter game of tests/common.rs; a     *)
(* start_game call is judged by its start condition ("TestGame") or by the *)
(* start condition of examples/tictactoe.rs ("MinTwo"); an action is       *)
(* judged by the counter game or by the membership rule of tictactoe.      *)
(***************************************************************************)
EXTENDS Integers, Sequences, FiniteSets, TLC

\* ------------------------------------------------------------------ bounds
MaxOps == 1             \* caller operations once the room is prepared (join not counted)
MaxDrops == 1           \* times the host's GameRoom is dropped
MaxQueue == 1           \* work a pipeline has not finished: events not consumed, entries parked
MaxPlays == 2           \* submit_action and send_chat calls while the game is in play

\* ------------------------------------------------------------------ peers
Host == "h"
Clients == {"c1"}
\* a second client, taking part only where the host has left a room of three
Others == {"c2"}
Peers == {Host} \cup Clients \cup Others
\* peers whose store_path is Some(..): identity and replica survive a drop
Persistent == {Host}
\* caller tasks that can be inside start_game at once
Tasks == 1..MaxOps

VARIABLES
    alive,      \* alive[p]: p has a GameRoom (pipeline task running)
    joined,     \* joined[p]: p has created or joined the room at least once
    doc,        \* doc[p]: the entries of p's replica
    blobs,      \* blobs[p]: contents held by p's blob store
    stream,     \* stream[p]: LiveEvents not yet consumed by p's pipeline
    pending,    \* pending[p]: pending_entries of p's pipeline
    flag,       \* flag[p]: host_disconnected
    ui,         \* ui[p]: UI events p's pipeline sent in the step just taken
    lastHost,   \* lastHost[p]: kind of the last Host event sent on ui[p]
    sgPc,       \* sgPc[p][t]: position of caller task t inside start_game
    nOps,       \* caller operations made so far
    nDrops,     \* drops of the host's GameRoom so far
    sgRet,      \* sgRet[p]: what start_game returned to p in the step just taken
    channel,    \* channel[p]: UI events sent and not yet taken from p's receiver
    receiver,   \* receiver[p]: how the application holds the receiver of p
    task        \* task[p]: the pipeline task of p's event loop

vars == <<alive, joined, doc, blobs, stream, pending, flag, ui,
          lastHost, sgPc, nOps, nDrops, sgRet, channel, receiver, task>>

\* ------------------------------------------------------------ key schema
KEY_APP_STATE == <<"app_state", "">>
KEY_HOST_ID == <<"host_id", "">>
KEY_GAME_STATE == <<"game_state", "">>
PREFIX_JOIN == "join_request."
PREFIX_QUIT == "quit_request."
PREFIX_ACTION == "action."
PREFIX_CHAT == "chat."
PREFIX_PEER == "player."

\* EndpointId::to_string / EndpointId::from_str, as text inside a key
IdStr(p) == p
endpoint_id_from_str(s) ==
    IF s \in Peers THEN [ok |-> TRUE, v |-> s] ELSE [ok |-> FALSE, v |-> "InvalidEndpointId"]

\* the bytes of EndpointId::to_string, as a document value
IdBytes(p) == CASE p = "h" -> <<101>> [] p = "c1" -> <<102>> [] OTHER -> <<103>>
IdOfBytes(b) ==
    IF \E p \in Peers : IdBytes(p) = b
    THEN [ok |-> TRUE, v |-> CHOOSE p \in Peers : IdBytes(p) = b]
    ELSE [ok |-> FALSE, v |-> "InvalidEndpointId"]

\* -------------------------------------------------------- postcard codec
AppStates == <<"Lobby", "InGame", "Paused", "Finished">>
EncAppState(s) == <<(CHOOSE i \in 1..4 : AppStates[i] = s) - 1>>
DecAppState(b) ==
    IF Len(b) = 1 /\ b[1] \in 0..3
    THEN [ok |-> TRUE, v |-> AppStates[b[1] + 1]]
    ELSE [ok |-> FALSE, v |-> "Postcard"]

\* TestGameState { counter: u32 }
EncGameState(s) == <<s.counter>>
DecGameState(b) ==
    IF Len(b) = 1 /\ b[1] \in 0..127
    THEN [ok |-> TRUE, v |-> [counter |-> b[1]]]
    ELSE [ok |-> FALSE, v |-> "Postcard"]

\* TestGameAction::Increment, the only variant
EncAction(a) == <<0>>
DecAction(b) ==
    IF b = <<0>>
    THEN [ok |-> TRUE, v |-> "Increment"]
    ELSE [ok |-> FALSE, v |-> "Postcard"]

\* ChatMessage { from, message, timestamp }: the text is one symbol
Millis == {"1", "2"}
MsByte(ms) == IF ms = "1" THEN 1 ELSE 2
EncChat(m) == IdBytes(m.from) \o <<m.message, MsByte(m.timestamp)>>
DecChat(b) ==
    IF Len(b) = 3 /\ IdOfBytes(<<b[1]>>).ok /\ b[3] \in 1..2
    THEN [ok |-> TRUE,
          v |-> [from |-> IdOfBytes(<<b[1]>>).v, message |-> b[2],
                 timestamp |-> IF b[3] = 1 THEN "1" ELSE "2"]]
    ELSE [ok |-> FALSE, v |-> "Postcard"]

\* PeerProfile { nickname, avatar }: the nickname is one symbol, avatar None
Nick(p) == IdBytes(p)[1] + 100
EncProfile(pr) == <<pr.nickname, 0>>
DecProfile(b) ==
    IF Len(b) = 2 /\ b[2] = 0
    THEN [ok |-> TRUE, v |-> [nickname |-> b[1]]]
    ELSE [ok |-> FALSE, v |-> "Postcard"]

\* PeerInfo { id, profile, status, ready, is_observer }
Bit(x) == IF x THEN 1 ELSE 0
EncPeerInfo(i) ==
    IdBytes(i.id) \o EncProfile([nickname |-> i.nickname])
        \o <<(IF i.status = "Online" THEN 0 ELSE 1), Bit(i.ready), Bit(i.is_observer)>>
DecPeerInfo(b) ==
    IF /\ Len(b) = 6
       /\ IdOfBytes(<<b[1]>>).ok
       /\ b[3] = 0
       /\ b[4] \in 0..1 /\ b[5] \in 0..1 /\ b[6] \in 0..1
    THEN [ok |-> TRUE,
          v |-> [id |-> IdOfBytes(<<b[1]>>).v, nickname |-> b[2],
                 status |-> IF b[4] = 0 THEN "Online" ELSE "Offline",
                 ready |-> b[5] = 1, is_observer |-> b[6] = 1]]
    ELSE [ok |-> FALSE, v |-> "Postcard"]

\* LeaveReason::ApplicationClosed
EncLeaveReason == <<0>>

\* PeerInfo::new
PeerInfoNew(id, profile) ==
    [id |-> id, nickname |-> profile.nickname, status |-> "Online",
     ready |-> FALSE, is_observer |-> TRUE]

\* ------------------------------------------------------- replica queries
NoEntry == [key |-> <<"", "">>, author |-> "", val |-> <<>>, ts |-> 0]

\* Query::single_latest_per_key().key_exact(key)
Latest(p, k) ==
    LET es == {e \in doc[p] : e.key = k}
    IN IF es = {} THEN NoEntry
       ELSE CHOOSE e \in es : \A f \in es : f.ts <= e.ts

\* Iroh::get_content_bytes: fails while the blob is not in the local store
HasContent(p, e) == e.val \in blobs[p]

\* StateData::get_bytes
get_bytes(p, k) ==
    LET e == Latest(p, k)
    IN IF e = NoEntry THEN [st |-> "none", val |-> <<>>]
       ELSE IF HasContent(p, e) THEN [st |-> "ok", val |-> e.val]
       ELSE [st |-> "err", val |-> <<>>]

Ok(v) == [ok |-> TRUE, v |-> v]
Err(m) == [ok |-> FALSE, v |-> m]

\* StateData::is_peer_host
is_peer_host(p, id) ==
    LET r == get_bytes(p, KEY_HOST_ID)
    IN CASE r.st = "err" -> Err("NetworkError")
         [] r.st = "none" -> Ok(FALSE)
         [] OTHER -> Ok(IdBytes(id) = r.val)

\* StateData::is_host
is_host_anyone(p) == Ok(TRUE)
is_host(p) == is_peer_host(p, p)

\* `.unwrap_or(false)` on a Result<bool>
unwrap_or_false(r) == r.ok /\ r.v

\* StateData::get_host_id
get_host_id(p) ==
    LET r == get_bytes(p, KEY_HOST_ID)
    IN CASE r.st = "err" -> Err("NetworkError")
         [] r.st = "none" -> Err("NoHostId")
         [] OTHER -> IdOfBytes(r.val)

\* StateData::get_app_state
get_app_state_unflagged(p) ==
    LET r == get_bytes(p, KEY_APP_STATE)
    IN CASE r.st = "err" -> Err("NetworkError")
         [] r.st = "none" -> Err("NoAppState")
         [] OTHER -> DecAppState(r.val)
get_app_state(p) ==
    IF flag[p] THEN Ok("Paused")
    ELSE LET r == get_bytes(p, KEY_APP_STATE)
         IN CASE r.st = "err" -> Err("NetworkError")
              [] r.st = "none" -> Err("NoAppState")
              [] OTHER -> DecAppState(r.val)

\* StateData::get_game_state
get_game_state_or_default(p) ==
    LET r == get_bytes(p, KEY_GAME_STATE)
    IN CASE r.st = "err" -> Err("NetworkError")
         [] r.st = "none" -> Ok([counter |-> 0])
         [] OTHER -> DecGameState(r.val)
get_game_state(p) ==
    LET r == get_bytes(p, KEY_GAME_STATE)
    IN CASE r.st = "err" -> Err("NetworkError")
         [] r.st = "none" -> Err("NoGameState")
         [] OTHER -> DecGameState(r.val)

\* StateData::get_peer_info
get_peer_info(p, id) ==
    LET r == get_bytes(p, <<PREFIX_PEER, IdStr(id)>>)
    IN CASE r.st = "err" -> Err("NetworkError")
         [] r.st = "none" -> Ok([some |-> FALSE])
         [] OTHER -> IF DecPeerInfo(r.val).ok
                     THEN Ok([some |-> TRUE, info |-> DecPeerInfo(r.val).v])
                     ELSE Err("Postcard")

\* StateData::get_peer_list: the records that are readable, decodable and
\* keyed by a valid endpoint id, then the host's status patched
PeerListIds(p) ==
    {id \in Peers :
        LET e == Latest(p, <<PREFIX_PEER, IdStr(id)>>)
        IN e # NoEntry /\ HasContent(p, e) /\ DecPeerInfo(e.val).ok}
get_peer_list_unpatched(p) ==
    [id \in PeerListIds(p) |-> DecPeerInfo(Latest(p, <<PREFIX_PEER, IdStr(id)>>).val).v]
get_peer_list(p) ==
    LET peers == [id \in PeerListIds(p) |->
                    DecPeerInfo(Latest(p, <<PREFIX_PEER, IdStr(id)>>).val).v]
        hid == get_host_id(p)
    IN IF flag[p] /\ hid.ok /\ hid.v \in DOMAIN peers
       THEN [peers EXCEPT ![hid.v].status = "Offline"]
       ELSE peers

\* ------------------------------------------------------------ game logic
\* TestGame::assign_roles
assign_roles(players) == [id \in DOMAIN players |-> "Counter"]
\* TestGame::initial_state
initial_state(roles) == [counter |-> 0]
\* TestGame::start_conditions_met / TicTacToeLogic::start_conditions_met
Logics == {"TestGame", "MinTwo"}
MinPlayers == 2
start_conditions_met_accepting(lg, players, state) == Ok("unit")
start_conditions_met(lg, players, state) ==
    IF lg = "MinTwo" /\ Cardinality(DOMAIN players) < MinPlayers
    THEN Err("NotEnoughPlayers")
    ELSE Ok("unit")

\* TestGame::apply_action (Increment always applies); under "MinTwo" the
\* membership rule of TicTacToeLogic::apply_action: a peer without a role,
\* the roles being those of the peers listed, is not a player
apply_action_from_initial(lg, state, roles, player, action) ==
    IF lg = "MinTwo" /\ player \notin DOMAIN roles
    THEN [ok |-> FALSE, v |-> "NotAPlayer"]
    ELSE [ok |-> TRUE, v |-> [counter |-> initial_state(roles).counter + 1]]
apply_action(lg, state, roles, player, action) ==
    IF lg = "MinTwo" /\ player \notin DOMAIN roles
    THEN [ok |-> FALSE, v |-> "NotAPlayer"]
    ELSE [ok |-> TRUE, v |-> [counter |-> state.counter + 1]]

\* --------------------------------------------------------------- writers
\* Entries carry the wall-clock time of the write.  Only timestamps of the
\* same key are ever compared, so the time of a write is represented by its
\* rank among the writes to that key.
Max(S) == IF S = {} THEN 0 ELSE CHOOSE x \in S : \A y \in S : y <= x
Now(k) == 1 + Max({e.ts : e \in {f \in UNION {doc[q] : q \in Peers} : f.key = k}})
NewEntry(p, k, v) == [key |-> k, author |-> p, val |-> v, ts |-> Now(k)]
\* a replica keeps one entry per (key, author)
DocPut_per_author(d, e) == {f \in d : f.author # e.author} \cup {e}
DocPut(d, e) == {f \in d : ~(f.key = e.key /\ f.author = e.author)} \cup {e}

\* the pipeline of p keeps up: it can take one more write or remote insert
Room(p) == Len(stream[p]) + Cardinality(pending[p]) < MaxQueue

\* LiveEvent
InsertLocal(e) == [type |-> "InsertLocal", entry |-> e, status |-> "Complete", id |-> ""]
InsertRemote(e, st) == [type |-> "InsertRemote", entry |-> e, status |-> st, id |-> ""]
ContentReady(h) == [type |-> "ContentReady", entry |-> [NoEntry EXCEPT !.val = h], status |-> "Complete", id |-> ""]
NeighborUp(id) == [type |-> "NeighborUp", entry |-> NoEntry, status |-> "Complete", id |-> id]
NeighborDown(id) == [type |-> "NeighborDown", entry |-> NoEntry, status |-> "Complete", id |-> id]

\* StateData::set_bytes by p, its pipeline's stream being `base` before the
\* InsertLocal event of the write is appended
SetBytes(p, k, v, base) ==
    LET e == NewEntry(p, k, v)
    IN /\ doc' = [doc EXCEPT ![p] = DocPut(@, e)]
       /\ blobs' = [blobs EXCEPT ![p] = @ \cup {v}]
       /\ stream' = [stream EXCEPT ![p] = Append(base, InsertLocal(e))]

NoWrite(p, base) ==
    /\ UNCHANGED <<doc, blobs>>
    /\ stream' = [stream EXCEPT ![p] = base]

\* ------------------------------------------------------------- UI events
ChannelCap == 32
UiPeer(m) == [kind |-> "Peer", sub |-> "", data |-> m]
UiGameState(g) == [kind |-> "GameState", sub |-> "", data |-> g]
UiAppState(a) == [kind |-> "AppState", sub |-> a, data |-> a]
UiHost(sub, to) == [kind |-> "Host", sub |-> sub, data |-> to]
UiChat(id, msg) == [kind |-> "Chat", sub |-> "", data |-> [id |-> id, msg |-> msg]]
\* PeerInfo::default() for `unwrap_or_default`
UnknownPeer == [some |-> FALSE]

\* the receiver of mpsc::channel(ChannelCap), as the application holds it:
\*   "polling"  it takes every event as it comes, so the channel is empty
\*              when the pipeline turns to an event
\*   "idle"     it takes an event when it chooses to
\*   "closed"   it has dropped or closed the receiver
Receivers == {"polling", "idle", "closed"}
NoUi == [q \in Peers |-> <<>>]
UiPolled ==
    /\ channel = NoUi
    /\ receiver = [q \in Peers |-> "polling"]
    /\ task = [q \in Peers |-> "running"]
Silent == ui' = NoUi /\ UNCHANGED <<channel, receiver, task>>
\* start_game returns r to p / no start_game call returns in this step
NoRet == [q \in Peers |-> "none"]
Returns(p, r) == sgRet' = [NoRet EXCEPT ![p] = r]
NoReturn == sgRet' = NoRet
\* sender.send(event).await: waits while the channel is full, fails once
\* the receiver is closed, and the loop then breaks
Send_unbounded(p, evs) ==
    /\ Len(evs) <= ChannelCap
    /\ CASE evs = <<>> \/ receiver[p] = "polling" -> UNCHANGED <<channel, task>>
         [] receiver[p] = "closed" ->
                task' = [task EXCEPT ![p] = "finished"] /\ UNCHANGED channel
         [] OTHER ->
                /\ channel' = [channel EXCEPT ![p] = @ \o evs]
                /\ UNCHANGED task
    /\ UNCHANGED receiver
Send(p, evs) ==
    /\ Len(evs) <= ChannelCap
    /\ CASE evs = <<>> \/ receiver[p] = "polling" -> UNCHANGED <<channel, task>>
         [] receiver[p] = "closed" ->
                task' = [task EXCEPT ![p] = "finished"] /\ UNCHANGED channel
         [] OTHER ->
                /\ Len(channel[p]) + Len(evs) <= ChannelCap
                /\ channel' = [channel EXCEPT ![p] = @ \o evs]
                /\ UNCHANGED task
    /\ UNCHANGED receiver
Emit(p, evs) ==
    /\ Send(p, evs)
    /\ ui' = [NoUi EXCEPT ![p] = IF receiver[p] = "closed" THEN <<>> ELSE evs]
    /\ lastHost' = [lastHost EXCEPT ![p] =
                       IF evs # <<>> /\ evs[1].kind = "Host" THEN evs[1].sub ELSE @]

\* ------------------------------------------------------------------ Init
\* what the creator's replica holds once it has prepared the room, nobody
\* else having joined yet and its pipeline having consumed every event:
\*   "create"   GameRoom::create
\*   "started"  GameRoom::create, then start_game
Preparations == {"create", "started"}
Entry(k, v, ts) == [key |-> k, author |-> Host, val |-> v, ts |-> ts]
CreateEntries ==
    {Entry(KEY_APP_STATE, EncAppState("Lobby"), 1), Entry(KEY_HOST_ID, IdBytes(Host), 1)}
StartedEntries ==
    {Entry(KEY_HOST_ID, IdBytes(Host), 1),
     Entry(KEY_GAME_STATE, EncGameState(initial_state(<<>>)), 1),
     Entry(KEY_APP_STATE, EncAppState("InGame"), 2)}
HostEntries(prep) == IF prep = "create" THEN CreateEntries ELSE StartedEntries

InitWith_subscribed_first(prep) ==
    /\ alive = [p \in Peers |-> p = Host]
    /\ joined = [p \in Peers |-> p = Host]
    /\ doc = [p \in Peers |-> IF p = Host THEN HostEntries(prep) ELSE {}]
    /\ blobs = [p \in Peers |-> IF p = Host THEN {e.val : e \in HostEntries(prep)} ELSE {}]
    /\ stream = [p \in Peers |->
                    IF p = Host
                    THEN <<InsertLocal(Entry(KEY_APP_STATE, EncAppState("Lobby"), 1)),
                           InsertLocal(Entry(KEY_HOST_ID, IdBytes(Host), 1))>>
                    ELSE <<>>]
    /\ pending = [p \in Peers |-> {}]
    /\ flag = [p \in Peers |-> FALSE]
    /\ ui = NoUi /\ UiPolled
    /\ lastHost = [p \in Peers |-> "None"]
    /\ sgPc = [p \in Peers |-> [t \in Tasks |-> "idle"]]
    /\ nOps = 0
    /\ nDrops = 0
    /\ sgRet = NoRet
InitWith(prep) ==
    /\ alive = [p \in Peers |-> p = Host]
    /\ joined = [p \in Peers |-> p = Host]
    /\ doc = [p \in Peers |-> IF p = Host THEN HostEntries(prep) ELSE {}]
    /\ blobs = [p \in Peers |-> IF p = Host THEN {e.val : e \in HostEntries(prep)} ELSE {}]
    /\ stream = [p \in Peers |-> <<>>]
    /\ pending = [p \in Peers |-> {}]
    /\ flag = [p \in Peers |-> FALSE]
    /\ ui = NoUi /\ UiPolled
    /\ lastHost = [p \in Peers |-> "None"]
    /\ sgPc = [p \in Peers |-> [t \in Tasks |-> "idle"]]
    /\ nOps = 0
    /\ nDrops = 0
    /\ sgRet = NoRet

Init == \E prep \in Preparations : InitWith(prep)

\* ------------------------------------------------------ caller operations
\* gossip neighbours: every pair of running endpoints of the room
Linked(p, q) == p # q /\ alive[p] /\ alive[q]

\* p enters the swarm: p and every running peer get NeighborUp for each other
EnterSwarm(p) ==
    /\ \A q \in Peers \ {p} : alive[q] => Room(q)
    /\ stream' = [q \in Peers |->
                 IF q = p THEN [i \in 1..Cardinality({r \in Peers \ {p} : alive[r]}) |->
                                  NeighborUp(CHOOSE r \in Peers \ {p} :
                                      alive[r] /\ Cardinality({x \in Peers \ {p} : alive[x] /\ IdBytes(x)[1] < IdBytes(r)[1]}) = i - 1)]
                 ELSE IF alive[q] THEN Append(stream[q], NeighborUp(p))
                 ELSE stream[q]]

\* GameRoom::join (first time, in-memory store)
JoinRoom(p) ==
    /\ ~joined[p]
    /\ alive' = [alive EXCEPT ![p] = TRUE]
    /\ joined' = [joined EXCEPT ![p] = TRUE]
    /\ EnterSwarm(p)
    /\ UNCHANGED <<doc, blobs, pending, flag, lastHost, sgPc, nOps, nDrops>>
    /\ Silent /\ NoReturn

\* StateData::announce_presence
AnnouncePresence(p) ==
    /\ alive[p] /\ nOps < MaxOps /\ Room(p)
    /\ ~\E e \in doc[p] : e.key = <<PREFIX_JOIN, IdStr(p)>> /\ e.author = p
    /\ nOps' = nOps + 1
    /\ SetBytes(p, <<PREFIX_JOIN, IdStr(p)>>, EncProfile([nickname |-> Nick(p)]), stream[p])
    /\ UNCHANGED <<alive, joined, pending, flag, lastHost, sgPc, nDrops>>
    /\ Silent /\ NoReturn

\* StateData::set_app_state called by the application (GameRoom derefs to
\* StateData), e.g. to finish the game
SetAppState(p, a) ==
    /\ alive[p] /\ nOps < MaxOps /\ Room(p)
    /\ nOps' = nOps + 1
    /\ SetBytes(p, KEY_APP_STATE, EncAppState(a), stream[p])
    /\ UNCHANGED <<alive, joined, pending, flag, lastHost, sgPc, nDrops>>
    /\ Silent /\ NoReturn

\* StateData::claim_host
ClaimHost_toggling(p) ==
    /\ alive[p] /\ nOps < MaxOps /\ Room(p)
    /\ nOps' = nOps + 1
    /\ SetBytes(p, KEY_HOST_ID, IF is_host(p) = Ok(TRUE) THEN <<>> ELSE IdBytes(p), stream[p])
    /\ UNCHANGED <<alive, joined, pending, flag, lastHost, sgPc, nDrops>>
    /\ Silent /\ NoReturn
ClaimHost(p) ==
    /\ alive[p] /\ nOps < MaxOps /\ Room(p)
    /\ nOps' = nOps + 1
    /\ SetBytes(p, KEY_HOST_ID, IdBytes(p), stream[p])
    /\ UNCHANGED <<alive, joined, pending, flag, lastHost, sgPc, nDrops>>
    /\ Silent /\ NoReturn

\* StateData::announce_leave (the grace sleep has no effect on the state)
AnnounceLeave(p) ==
    /\ alive[p] /\ nOps < MaxOps /\ Room(p)
    /\ nOps' = nOps + 1
    /\ ~\E e \in doc[p] : e.key = <<PREFIX_QUIT, IdStr(p)>> /\ e.author = p
    /\ SetBytes(p, <<PREFIX_QUIT, IdStr(p)>>, EncLeaveReason, stream[p])
    /\ UNCHANGED <<alive, joined, pending, flag, lastHost, sgPc, nDrops>>
    /\ Silent /\ NoReturn

\* StateData::submit_action: the key is "action.<id>", one entry per peer
SubmitAction(p, a) ==
    /\ alive[p] /\ nOps < MaxPlays /\ Room(p)
    /\ nOps' = nOps + 1
    /\ SetBytes(p, <<PREFIX_ACTION, IdStr(p)>>, EncAction(a), stream[p])
    /\ UNCHANGED <<alive, joined, pending, flag, lastHost, sgPc, nDrops>>
    /\ Silent /\ NoReturn

\* StateData::send_chat at millisecond ms of p's clock, which does not run
\* backwards: the key is "chat.<timestamp>.<id>"
ChatKey(p, ms) == <<PREFIX_CHAT, ms, IdStr(p)>>
SendChat(p, text, ms) ==
    /\ alive[p] /\ nOps < MaxPlays /\ Room(p)
    /\ \A e \in doc[p] : (e.key[1] = PREFIX_CHAT /\ e.author = p) => MsByte(e.key[2]) <= MsByte(ms)
    /\ nOps' = nOps + 1
    /\ SetBytes(p, ChatKey(p, ms), EncChat([from |-> p, message |-> text, timestamp |-> ms]), stream[p])
    /\ UNCHANGED <<alive, joined, pending, flag, lastHost, sgPc, nDrops>>
    /\ Silent /\ NoReturn

\* a holder of the write ticket writes through its Iroh handle (lib.rs
\* exports Iroh; the ticket is ShareMode::Write), or runs another GameLogic:
\* the payload is not one this codec produces
Garbage == <<255>>
RawKeys(p) ==
    {KEY_APP_STATE, KEY_HOST_ID, KEY_GAME_STATE, ChatKey(p, "1"),
     <<PREFIX_JOIN, IdStr(p)>>, <<PREFIX_ACTION, IdStr(p)>>, <<PREFIX_PEER, IdStr(p)>>}
WriteRaw(p, k) ==
    /\ alive[p] /\ nOps < MaxOps /\ Room(p)
    /\ k \in RawKeys(p)
    /\ nOps' = nOps + 1
    /\ SetBytes(p, k, Garbage, stream[p])
    /\ UNCHANGED <<alive, joined, pending, flag, lastHost, sgPc, nDrops>>
    /\ Silent /\ NoReturn

\* GameRoom::start_game, the reads and checks up to start_conditions_met;
\* lg: the start condition of the GameLogic plugged in
StartGameCheckResult_any_state(p, lg) ==
    LET ih == is_host(p)
        players == get_peer_list(p)
        st == initial_state(assign_roles(players))
    IN CASE ~ih.ok -> "NetworkError"
         [] ~ih.v -> "NotHost"
         [] ~start_conditions_met(lg, players, st).ok -> start_conditions_met(lg, players, st).v
         [] OTHER -> "Pass"
StartGameCheckResult(p, lg) ==
    LET ih == is_host(p)
        as == get_app_state(p)
        players == get_peer_list(p)
        st == initial_state(assign_roles(players))
    IN CASE ~ih.ok -> "NetworkError"
         [] ~ih.v -> "NotHost"
         [] ~as.ok -> as.v
         [] as.v # "Lobby" -> "AlreadyStarted"
         [] ~start_conditions_met(lg, players, st).ok -> start_conditions_met(lg, players, st).v
         [] OTHER -> "Pass"

StartGameCheck(p, t, lg) ==
    /\ alive[p] /\ sgPc[p][t] = "idle" /\ nOps < MaxOps
    /\ \A u \in Tasks : u < t => sgPc[p][u] # "idle"
    /\ nOps' = nOps + 1
    /\ LET r == StartGameCheckResult(p, lg)
       IN IF r = "Pass"
          THEN sgPc' = [sgPc EXCEPT ![p][t] = "set_game_state"] /\ NoReturn
          ELSE UNCHANGED sgPc /\ Returns(p, r)
    /\ UNCHANGED <<alive, joined, doc, blobs, stream, pending, flag, lastHost, nDrops>>
    /\ Silent

\* self.set_game_state(&initial_state)
StartGameSetGameState(p, t) ==
    /\ alive[p] /\ sgPc[p][t] = "set_game_state" /\ Room(p)
    /\ SetBytes(p, KEY_GAME_STATE, EncGameState(initial_state(assign_roles(get_peer_list(p)))), stream[p])
    /\ sgPc' = [sgPc EXCEPT ![p][t] = "set_app_state"]
    /\ UNCHANGED <<alive, joined, pending, flag, lastHost, nOps, nDrops>>
    /\ Silent /\ NoReturn

\* self.set_app_state(&AppState::InGame); Ok(())
StartGameSetAppState(p, t) ==
    /\ alive[p] /\ sgPc[p][t] = "set_app_state" /\ Room(p)
    /\ SetBytes(p, KEY_APP_STATE, EncAppState("InGame"), stream[p])
    /\ sgPc' = [sgPc EXCEPT ![p][t] = "idle"]
    /\ UNCHANGED <<alive, joined, pending, flag, lastHost, nOps, nDrops>>
    /\ Silent /\ Returns(p, "Ok")

\* ------------------------------------------------------------- lifecycle
\* Drop for GameRoom (or the process dies): the pipeline task is aborted and
\* the endpoint leaves the swarm, its neighbours get NeighborDown; a
\* persistent store keeps replica and blobs
Drop_volatile(p) ==
    /\ alive[p] /\ p \in Persistent /\ nDrops < MaxDrops
    /\ \A q \in Peers \ {p} : alive[q] => Room(q)
    /\ nDrops' = nDrops + 1
    /\ alive' = [alive EXCEPT ![p] = FALSE]
    /\ stream' = [q \in Peers |->
                    IF q = p THEN <<>>
                    ELSE IF alive[q] THEN Append(stream[q], NeighborDown(p))
                    ELSE stream[q]]
    /\ pending' = [pending EXCEPT ![p] = {}]
    /\ sgPc' = [sgPc EXCEPT ![p] = [t \in Tasks |-> "idle"]]
    /\ doc' = [doc EXCEPT ![p] = {}]
    /\ blobs' = [blobs EXCEPT ![p] = {}]
    /\ Silent /\ NoReturn
    /\ UNCHANGED <<joined, flag, lastHost, nOps>>
Drop(p) ==
    /\ alive[p] /\ p \in Persistent /\ nDrops < MaxDrops
    /\ \A q \in Peers \ {p} : alive[q] => Room(q)
    /\ nDrops' = nDrops + 1
    /\ alive' = [alive EXCEPT ![p] = FALSE]
    /\ stream' = [q \in Peers |->
                    IF q = p THEN <<>>
                    ELSE IF alive[q] THEN Append(stream[q], NeighborDown(p))
                    ELSE stream[q]]
    /\ pending' = [pending EXCEPT ![p] = {}]
    /\ sgPc' = [sgPc EXCEPT ![p] = [t \in Tasks |-> "idle"]]
    /\ Silent /\ NoReturn
    /\ UNCHANGED <<joined, doc, blobs, flag, lastHost, nOps>>

\* GameRoom::join with the same store_path: StateData::new starts with
\* host_disconnected = false and a fresh subscription
Rejoin(p) ==
    /\ ~alive[p] /\ joined[p] /\ p \in Persistent
    /\ alive' = [alive EXCEPT ![p] = TRUE]
    /\ flag' = [flag EXCEPT ![p] = FALSE]
    /\ lastHost' = [lastHost EXCEPT ![p] = "None"]
    /\ EnterSwarm(p)
    /\ UNCHANGED <<joined, doc, blobs, pending, sgPc, nOps, nDrops>>
    /\ Silent /\ NoReturn

\* ------------------------------------------------------------- substrate
\* sync: an entry of src's replica reaches dst's replica (any key, any order);
\* it is inserted when dst has nothing as new for that (key, author)
Deliver_repeating(src, dst, e) ==
    /\ Linked(src, dst) /\ Room(dst)
    /\ e \in doc[src]
    /\ \A f \in doc[dst] : (f.key = e.key /\ f.author = e.author) => f.ts <= e.ts
    /\ doc' = [doc EXCEPT ![dst] = DocPut(@, e)]
    /\ stream' = [stream EXCEPT ![dst] =
                     Append(@, InsertRemote(e, IF e.val \in blobs[dst] THEN "Complete" ELSE "Missing"))]
    /\ UNCHANGED <<alive, joined, blobs, pending, flag, lastHost, sgPc, nOps, nDrops>>
    /\ Silent /\ NoReturn
Deliver(src, dst, e) ==
    /\ Linked(src, dst) /\ Room(dst)
    /\ e \in doc[src]
    /\ \A f \in doc[dst] : (f.key = e.key /\ f.author = e.author) => f.ts < e.ts
    /\ doc' = [doc EXCEPT ![dst] = DocPut(@, e)]
    /\ stream' = [stream EXCEPT ![dst] =
                     Append(@, InsertRemote(e, IF e.val \in blobs[dst] THEN "Complete" ELSE "Missing"))]
    /\ UNCHANGED <<alive, joined, blobs, pending, flag, lastHost, sgPc, nOps, nDrops>>
    /\ Silent /\ NoReturn

\* the download of a missing content finishes
ContentArrives(p, h) ==
    /\ alive[p] /\ Len(stream[p]) < MaxQueue
    /\ h \notin blobs[p]
    /\ \E e \in doc[p] : e.val = h
    /\ \E q \in Peers : Linked(p, q) /\ h \in blobs[q]
    /\ blobs' = [blobs EXCEPT ![p] = @ \cup {h}]
    /\ stream' = [stream EXCEPT ![p] = Append(@, ContentReady(h))]
    /\ UNCHANGED <<alive, joined, doc, pending, flag, lastHost, sgPc, nOps, nDrops>>
    /\ Silent /\ NoReturn

\* -------------------------------------------------------------- pipeline
\* what processing one event does: at most one document write, the
\* host_disconnected flag, at most one UI event
Effect(put, fl, emit) == [put |-> put, flag |-> fl, emit |-> emit]
Nothing_clearing == Effect(<<>>, "clear", <<>>)
Nothing == Effect(<<>>, "keep", <<>>)

\* process_entry, the branch of an action request: host only; the state the
\* action applies to is the one the host's replica holds
on_action_request_applying(p, e, lg) ==
    LET ih == is_host(p)
        nid == endpoint_id_from_str(e.key[2])
        gs == get_game_state(p)
    IN IF \/ ~ih.ok \/ ~ih.v \/ ~nid.ok \/ ~gs.ok
          \/ ~HasContent(p, e) \/ ~DecAction(e.val).ok
       THEN Nothing
       ELSE Effect(<<[k |-> KEY_GAME_STATE,
                      v |-> EncGameState([counter |-> gs.v.counter + 1])]>>, "keep", <<>>)
on_action_request(p, e, lg) ==
    LET ih == is_host(p)
        nid == endpoint_id_from_str(e.key[2])
        gs == get_game_state(p)
    IN IF \/ ~ih.ok \/ ~ih.v \/ ~nid.ok \/ ~gs.ok
          \/ ~HasContent(p, e) \/ ~DecAction(e.val).ok
       THEN Nothing
       ELSE LET r == apply_action(lg, gs.v, assign_roles(get_peer_list(p)),
                                  nid.v, DecAction(e.val).v)
            IN IF r.ok
               THEN Effect(<<[k |-> KEY_GAME_STATE, v |-> EncGameState(r.v)]>>, "keep", <<>>)
               ELSE Nothing

\* process_entry, the branch of a chat message: the sender is the last part
\* of the key
on_chat_message(p, e) ==
    LET cid == endpoint_id_from_str(e.key[Len(e.key)])
    IN IF \/ ~cid.ok \/ ~get_peer_info(p, cid.v).ok
          \/ ~HasContent(p, e) \/ ~DecChat(e.val).ok
       THEN Nothing
       ELSE Effect(<<>>, "keep", <<UiChat(get_peer_info(p, cid.v).v, DecChat(e.val).v)>>)

\* StateData::set_peer_status, errors dropped by `.ok()`
set_peer_status_upserting(p, id, status) ==
    LET r == get_peer_info(p, id)
    IN IF r.ok /\ r.v.some
       THEN Effect(<<[k |-> <<PREFIX_PEER, IdStr(id)>>,
                      v |-> EncPeerInfo([r.v.info EXCEPT !.status = status])]>>, "keep", <<>>)
       ELSE IF r.ok
       THEN Effect(<<[k |-> <<PREFIX_PEER, IdStr(id)>>,
                      v |-> EncPeerInfo([PeerInfoNew(id, [nickname |-> Nick(id)])
                                            EXCEPT !.status = status])]>>, "keep", <<>>)
       ELSE Nothing
set_peer_status(p, id, status) ==
    LET r == get_peer_info(p, id)
    IN IF r.ok /\ r.v.some
       THEN Effect(<<[k |-> <<PREFIX_PEER, IdStr(id)>>,
                      v |-> EncPeerInfo([r.v.info EXCEPT !.status = status])]>>, "keep", <<>>)
       ELSE Nothing

\* process_entry, the branch of a quit request: both arms (the entry names
\* this endpoint, or another) log and return Ok(None)
on_quit_request_marking(p, e) ==
    LET nid == endpoint_id_from_str(e.key[2])
    IN IF nid.ok /\ unwrap_or_false(is_host(p))
       THEN set_peer_status(p, nid.v, "Offline")
       ELSE Nothing
on_quit_request(p, e) == Nothing

\* process_entry; dbg: the build has debug_assertions (the logging prologue
\* evaluates `data.is_host().await?`); lg: the GameLogic plugged in
process_entry(p, e, dbg, lg) ==
    LET ih == is_host(p)
        kind == e.key[1]
        nid == endpoint_id_from_str(e.key[2])
    IN CASE dbg /\ ~ih.ok -> Nothing
         [] kind = PREFIX_JOIN ->
                IF ~ih.ok \/ ~ih.v \/ ~nid.ok \/ ~HasContent(p, e) \/ ~DecProfile(e.val).ok
                THEN Nothing
                ELSE Effect(<<[k |-> <<PREFIX_PEER, IdStr(nid.v)>>,
                               v |-> EncPeerInfo(PeerInfoNew(nid.v, DecProfile(e.val).v))]>>,
                            "keep", <<>>)
         [] kind = PREFIX_ACTION -> on_action_request(p, e, lg)
         [] kind = PREFIX_CHAT -> on_chat_message(p, e)
         [] kind = PREFIX_QUIT -> on_quit_request(p, e)
         [] kind = PREFIX_PEER -> Effect(<<>>, "keep", <<UiPeer(get_peer_list(p))>>)
         [] e.key = KEY_GAME_STATE ->
                IF HasContent(p, e) /\ DecGameState(e.val).ok
                THEN Effect(<<>>, "keep", <<UiGameState(DecGameState(e.val).v)>>)
                ELSE Nothing
         [] e.key = KEY_APP_STATE ->
                IF HasContent(p, e) /\ DecAppState(e.val).ok
                THEN Effect(<<>>, "keep", <<UiAppState(DecAppState(e.val).v)>>)
                ELSE Nothing
         [] e.key = KEY_HOST_ID ->
                IF ~HasContent(p, e) THEN Nothing
                ELSE IF ~IdOfBytes(e.val).ok \/ ~get_peer_info(p, IdOfBytes(e.val).v).ok
                THEN Effect(<<>>, "clear", <<>>)
                ELSE Effect(<<>>, "clear",
                            <<UiHost("Changed", get_peer_info(p, IdOfBytes(e.val).v).v)>>)
         [] OTHER -> Nothing

\* NetworkEvent::Joiner
on_joiner_keeping(p, id) ==
    IF unwrap_or_false(is_host(p)) THEN set_peer_status(p, id, "Online")
    ELSE IF unwrap_or_false(is_peer_host(p, id))
    THEN Effect(<<>>, "keep", <<UiHost("Online", UnknownPeer)>>)
    ELSE Nothing
on_joiner(p, id) ==
    IF unwrap_or_false(is_host(p)) THEN set_peer_status(p, id, "Online")
    ELSE IF unwrap_or_false(is_peer_host(p, id))
    THEN Effect(<<>>, "clear", <<UiHost("Online", UnknownPeer)>>)
    ELSE Nothing

\* NetworkEvent::Leaver
on_leaver_keeping(p, id) ==
    IF unwrap_or_false(is_host(p)) THEN set_peer_status(p, id, "Offline")
    ELSE IF unwrap_or_false(is_peer_host(p, id))
    THEN Effect(<<>>, "keep", <<UiHost("Offline", UnknownPeer)>>)
    ELSE Nothing
on_leaver(p, id) ==
    IF unwrap_or_false(is_host(p)) THEN set_peer_status(p, id, "Offline")
    ELSE IF unwrap_or_false(is_peer_host(p, id))
    THEN Effect(<<>>, "set", <<UiHost("Offline", UnknownPeer)>>)
    ELSE Nothing

\* the event loop of p is running: the task has not been aborted by a drop
\* and has not left the loop
Runs_always(p) == alive[p]
Runs(p) == alive[p] /\ task[p] = "running"

\* the pipeline applies an effect and moves past the event it consumed
Apply(p, eff) ==
    /\ IF eff.put # <<>>
       THEN SetBytes(p, eff.put[1].k, eff.put[1].v, Tail(stream[p]))
       ELSE NoWrite(p, Tail(stream[p]))
    /\ flag' = [flag EXCEPT ![p] = CASE eff.flag = "set" -> TRUE
                                     [] eff.flag = "clear" -> FALSE
                                     [] OTHER -> @]
    /\ Emit(p, eff.emit)

PipeFrame == NoReturn /\ UNCHANGED <<alive, joined, sgPc, nOps, nDrops>>

\* NetworkEvent::parse gives Update(entry): a local insert, or a remote
\* insert whose content is Complete
PipeUpdate_any_status(p) ==
    /\ Runs(p) /\ stream[p] # <<>>
    /\ LET ev == Head(stream[p])
       IN /\ \/ ev.type = "InsertLocal"
             \/ ev.type = "InsertRemote"
          /\ \E dbg \in BOOLEAN, lg \in Logics : Apply(p, process_entry(p, ev.entry, dbg, lg))
    /\ UNCHANGED pending
    /\ PipeFrame
PipeUpdate(p) ==
    /\ Runs(p) /\ stream[p] # <<>>
    /\ LET ev == Head(stream[p])
       IN /\ \/ ev.type = "InsertLocal"
             \/ ev.type = "InsertRemote" /\ ev.status = "Complete"
          /\ \E dbg \in BOOLEAN, lg \in Logics : Apply(p, process_entry(p, ev.entry, dbg, lg))
    /\ UNCHANGED pending
    /\ PipeFrame

\* a remote insert whose content is Missing or Incomplete is parked
PipeDefer_unordered(p) ==
    /\ Runs(p) /\ stream[p] # <<>>
    /\ \E i \in 1..Len(stream[p]) :
          LET ev == stream[p][i]
          IN /\ ev.type = "InsertRemote" /\ ev.status = "Missing"
             /\ pending' = [pending EXCEPT ![p] =
                               {f \in @ : f.val # ev.entry.val} \cup {ev.entry}]
             /\ stream' = [stream EXCEPT ![p] =
                              SubSeq(@, 1, i - 1) \o SubSeq(@, i + 1, Len(@))]
    /\ UNCHANGED <<doc, blobs, flag>>
    /\ Emit(p, <<>>)
    /\ PipeFrame
PipeDefer(p) ==
    /\ Runs(p) /\ stream[p] # <<>>
    /\ LET ev == Head(stream[p])
       IN /\ ev.type = "InsertRemote" /\ ev.status = "Missing"
          /\ pending' = [pending EXCEPT ![p] =
                            {f \in @ : f.val # ev.entry.val} \cup {ev.entry}]
    /\ Apply(p, Nothing)
    /\ PipeFrame

\* ContentReady releases the entry parked under that hash, if any
PipeContentReady(p) ==
    /\ Runs(p) /\ stream[p] # <<>>
    /\ LET ev == Head(stream[p])
           parked == {f \in pending[p] : f.val = ev.entry.val}
       IN /\ ev.type = "ContentReady"
          /\ pending' = [pending EXCEPT ![p] = @ \ parked]
          /\ IF parked = {} THEN Apply(p, Nothing)
             ELSE \E dbg \in BOOLEAN, lg \in Logics :
                     Apply(p, process_entry(p, CHOOSE f \in parked : TRUE, dbg, lg))
    /\ PipeFrame

PipeJoiner(p) ==
    /\ Runs(p) /\ stream[p] # <<>>
    /\ Head(stream[p]).type = "NeighborUp"
    /\ Apply(p, on_joiner(p, Head(stream[p]).id))
    /\ UNCHANGED pending
    /\ PipeFrame

PipeLeaver(p) ==
    /\ Runs(p) /\ stream[p] # <<>>
    /\ Head(stream[p]).type = "NeighborDown"
    /\ Apply(p, on_leaver(p, Head(stream[p]).id))
    /\ UNCHANGED pending
    /\ PipeFrame

\* ------------------------------------------------------------------ Next
Next ==
    \/ \E p \in Clients : JoinRoom(p)
    \/ \E p \in Peers : AnnouncePresence(p)
    \/ \E p \in Peers : ClaimHost(p)
    \/ \E p \in Peers, i \in 1..Len(AppStates) : SetAppState(p, AppStates[i])
    \/ \E p \in Peers : AnnounceLeave(p)
    \/ \E p \in Peers, t \in Tasks, lg \in Logics : StartGameCheck(p, t, lg)
    \/ \E p \in Peers, t \in Tasks : StartGameSetGameState(p, t)
    \/ \E p \in Peers, t \in Tasks : StartGameSetAppState(p, t)
    \/ \E p \in Peers : Drop(p)
    \/ \E p \in Peers : Rejoin(p)
    \/ \E src, dst \in Peers : \E e \in doc[src] : Deliver(src, dst, e)
    \/ \E p \in Peers : \E e \in doc[p] : ContentArrives(p, e.val)
    \/ \E p \in Peers : PipeUpdate(p)
    \/ \E p \in Peers : PipeDefer(p)
    \/ \E p \in Peers : PipeContentReady(p)
    \/ \E p \in Peers : PipeJoiner(p)
    \/ \E p \in Peers : PipeLeaver(p)

Spec == Init /\ [][Next]_vars

\* the room in play: the game has been started, peers join, submit actions
\* and chat, nobody leaves; the texts sent are told apart by their number
InitPlay == InitWith("started")
NextPlay ==
    \/ \E p \in Clients : JoinRoom(p)
    \/ \E p \in Peers : SubmitAction(p, "Increment")
    \/ \E p \in Peers, ms \in Millis : SendChat(p, nOps + 1, ms)
    \/ \E src, dst \in Peers : \E e \in doc[src] : Deliver(src, dst, e)
    \/ \E p \in Peers : \E e \in doc[p] : ContentArrives(p, e.val)
    \/ \E p \in Peers : PipeUpdate(p)
    \/ \E p \in Peers : PipeDefer(p)
    \/ \E p \in Peers : PipeContentReady(p)
    \/ \E p \in Peers : PipeJoiner(p)

SpecPlay == InitPlay /\ [][NextPlay]_vars

\* the lobby with a client that has just joined: GameRoom::join imports the
\* ticket (StateData::new), which starts the sync, before its pipeline
\* subscribes (start_event_loop); the entries inserted in between (early)
\* are in the replica and were never events, and their contents (got) are
\* fetched one by one.  Peers announce themselves, payloads of foreign make
\* are written, the host may go away.
InitJoin ==
    \E early \in SUBSET CreateEntries :
        \E got \in SUBSET {e.val : e \in early} :
            /\ alive = [p \in Peers |-> p \notin Others]
            /\ joined = [p \in Peers |-> p \notin Others]
            /\ doc = [p \in Peers |-> CASE p = Host -> CreateEntries
                                      [] p \in Clients -> early
                                      [] OTHER -> {}]
            /\ blobs = [p \in Peers |-> CASE p = Host -> {e.val : e \in CreateEntries}
                                        [] p \in Clients -> got
                                        [] OTHER -> {}]
            /\ stream = [p \in Peers |-> <<>>]
            /\ pending = [p \in Peers |-> {}]
            /\ flag = [p \in Peers |-> FALSE]
            /\ ui = NoUi /\ UiPolled
            /\ lastHost = [p \in Peers |-> "None"]
            /\ sgPc = [p \in Peers |-> [t \in Tasks |-> "idle"]]
            /\ nOps = 0
            /\ nDrops = 0
            /\ sgRet = NoRet
NextJoin ==
    \/ \E p \in Peers : AnnouncePresence(p)
    \/ \E p \in Peers : \E k \in RawKeys(p) : WriteRaw(p, k)
    \/ \E p \in Peers : Drop(p)
    \/ \E src, dst \in Peers : \E e \in doc[src] : Deliver(src, dst, e)
    \/ \E p \in Peers : \E e \in doc[p] : ContentArrives(p, e.val)
    \/ \E p \in Peers : PipeUpdate(p)
    \/ \E p \in Peers : PipeDefer(p)
    \/ \E p \in Peers : PipeContentReady(p)
    \/ \E p \in Peers : PipeLeaver(p)

SpecJoin == InitJoin /\ [][NextJoin]_vars

\* the room the host has left without handing over: it had created the room
\* and announced itself, two clients had joined, then its GameRoom was
\* dropped; the second client holds everything the host wrote, the first
\* only part of it (early), and both have the host's NeighborDown to
\* process.  The clients sync with each other and may announce themselves.
AnnouncedEntries ==
    CreateEntries \cup
        {Entry(<<PREFIX_JOIN, IdStr(Host)>>, EncProfile([nickname |-> Nick(Host)]), 1),
         Entry(<<PREFIX_PEER, IdStr(Host)>>,
               EncPeerInfo(PeerInfoNew(Host, [nickname |-> Nick(Host)])), 1)}
InitGone ==
    \E early \in SUBSET AnnouncedEntries :
        /\ alive = [p \in Peers |-> p # Host]
        /\ joined = [p \in Peers |-> TRUE]
        /\ doc = [p \in Peers |-> IF p \in Clients THEN early ELSE AnnouncedEntries]
        /\ blobs = [p \in Peers |-> {e.val : e \in IF p \in Clients THEN early ELSE AnnouncedEntries}]
        /\ stream = [p \in Peers |-> IF p = Host THEN <<>> ELSE <<NeighborDown(Host)>>]
        /\ pending = [p \in Peers |-> {}]
        /\ flag = [p \in Peers |-> FALSE]
        /\ ui = NoUi /\ UiPolled
        /\ lastHost = [p \in Peers |-> "None"]
        /\ sgPc = [p \in Peers |-> [t \in Tasks |-> "idle"]]
        /\ nOps = 0
        /\ nDrops = 1
        /\ sgRet = NoRet
NextGone ==
    \/ \E p \in Peers : AnnouncePresence(p)
    \/ \E src, dst \in Peers : \E e \in doc[src] : Deliver(src, dst, e)
    \/ \E p \in Peers : \E e \in doc[p] : ContentArrives(p, e.val)
    \/ \E p \in Peers : PipeUpdate(p)
    \/ \E p \in Peers : PipeDefer(p)
    \/ \E p \in Peers : PipeContentReady(p)
    \/ \E p \in Peers : PipeLeaver(p)

SpecGone == InitGone /\ [][NextGone]_vars

\* a client whose first sync has just come in: the game was started and the
\* host has accepted one action of its own; the client's replica received
\* every entry of the host's in one burst, in any order (order), no content
\* fetched yet, and its pipeline has handled none of the inserts.  Contents
\* arrive, peers announce themselves, actions are submitted.
PlayedEntries ==
    {Entry(KEY_HOST_ID, IdBytes(Host), 1),
     Entry(KEY_APP_STATE, EncAppState("InGame"), 2),
     Entry(<<PREFIX_ACTION, IdStr(Host)>>, EncAction("Increment"), 1),
     Entry(KEY_GAME_STATE, EncGameState([counter |-> initial_state(<<>>).counter + 1]), 2)}
Orders(S) == {o \in [1..Cardinality(S) -> S] : \A e \in S : \E i \in DOMAIN o : o[i] = e}
InitBurst ==
    \E order \in Orders(PlayedEntries) :
        /\ alive = [p \in Peers |-> p \notin Others]
        /\ joined = [p \in Peers |-> p \notin Others]
        /\ doc = [p \in Peers |-> IF p \in Others THEN {} ELSE PlayedEntries]
        /\ blobs = [p \in Peers |-> IF p = Host THEN {e.val : e \in PlayedEntries} ELSE {}]
        /\ stream = [p \in Peers |->
                        IF p \in Clients
                        THEN [i \in DOMAIN order |-> InsertRemote(order[i], "Missing")]
                        ELSE <<>>]
        /\ pending = [p \in Peers |-> {}]
        /\ flag = [p \in Peers |-> FALSE]
        /\ ui = NoUi /\ UiPolled
        /\ lastHost = [p \in Peers |-> "None"]
        /\ sgPc = [p \in Peers |-> [t \in Tasks |-> "idle"]]
        /\ nOps = 0
        /\ nDrops = 0
        /\ sgRet = NoRet
NextBurst ==
    \/ \E p \in Peers : AnnouncePresence(p)
    \/ \E p \in Peers : SubmitAction(p, "Increment")
    \/ \E src, dst \in Peers : \E e \in doc[src] : Deliver(src, dst, e)
    \/ \E p \in Peers : \E e \in doc[p] : ContentArrives(p, e.val)
    \/ \E p \in Peers : PipeUpdate(p)
    \/ \E p \in Peers : PipeDefer(p)
    \/ \E p \in Peers : PipeContentReady(p)

SpecBurst == InitBurst /\ [][NextBurst]_vars

\* two start_game calls on the host that overlap (start_game takes &self
\* and holds no lock): both passed their checks while app_state was Lobby,
\* one has made its two writes and returned, the other is about to write.
\* A client joins, actions are submitted, start_game may be called again.
InitOverlap ==
    /\ alive = [p \in Peers |-> p = Host]
    /\ joined = [p \in Peers |-> p = Host]
    /\ doc = [p \in Peers |-> IF p = Host THEN StartedEntries ELSE {}]
    /\ blobs = [p \in Peers |-> IF p = Host THEN {e.val : e \in StartedEntries} ELSE {}]
    /\ stream = [p \in Peers |-> <<>>]
    /\ pending = [p \in Peers |-> {}]
    /\ flag = [p \in Peers |-> FALSE]
    /\ ui = NoUi /\ UiPolled
    /\ lastHost = [p \in Peers |-> "None"]
    /\ sgPc = [p \in Peers |-> [t \in Tasks |-> IF p = Host /\ t = 1 THEN "set_game_state" ELSE "idle"]]
    /\ nOps = 0
    /\ nDrops = 0
    /\ sgRet = NoRet
NextOverlap ==
    \/ \E p \in Clients : JoinRoom(p)
    \/ \E p \in Peers : SubmitAction(p, "Increment")
    \/ \E p \in Peers, t \in Tasks, lg \in Logics : StartGameCheck(p, t, lg)
    \/ \E p \in Peers, t \in Tasks : StartGameSetGameState(p, t)
    \/ \E p \in Peers, t \in Tasks : StartGameSetAppState(p, t)
    \/ \E src, dst \in Peers : \E e \in doc[src] : Deliver(src, dst, e)
    \/ \E p \in Peers : \E e \in doc[p] : ContentArrives(p, e.val)
    \/ \E p \in Peers : PipeUpdate(p)
    \/ \E p \in Peers : PipeDefer(p)
    \/ \E p \in Peers : PipeContentReady(p)
    \/ \E p \in Peers : PipeJoiner(p)

SpecOverlap == InitOverlap /\ [][NextOverlap]_vars

\* the room around the start of the game: the creator starts the game or
\* sets app_state itself, a client joins, actions are submitted whatever
\* the state of the room (submit_action checks nothing)
InitAction == \E prep \in Preparations : InitWith(prep)
NextAction ==
    \/ \E p \in Clients : JoinRoom(p)
    \/ \E p \in Peers : SubmitAction(p, "Increment")
    \/ \E p \in Peers, i \in 1..Len(AppStates) : SetAppState(p, AppStates[i])
    \/ \E p \in Peers, t \in Tasks, lg \in Logics : StartGameCheck(p, t, lg)
    \/ \E p \in Peers, t \in Tasks : StartGameSetGameState(p, t)
    \/ \E p \in Peers, t \in Tasks : StartGameSetAppState(p, t)
    \/ \E src, dst \in Peers : \E e \in doc[src] : Deliver(src, dst, e)
    \/ \E p \in Peers : \E e \in doc[p] : ContentArrives(p, e.val)
    \/ \E p \in Peers : PipeUpdate(p)
    \/ \E p \in Peers : PipeDefer(p)
    \/ \E p \in Peers : PipeContentReady(p)
    \/ \E p \in Peers : PipeJoiner(p)

SpecAction == InitAction /\ [][NextAction]_vars

\* the application takes the next event from the receiver (receiver.recv())
UiRecv(p) ==
    /\ alive[p] /\ nOps < MaxPlays
    /\ receiver[p] = "idle" /\ channel[p] # <<>>
    /\ nOps' = nOps + 1
    /\ channel' = [channel EXCEPT ![p] = Tail(@)]
    /\ ui' = NoUi /\ NoReturn
    /\ UNCHANGED <<alive, joined, doc, blobs, stream, pending, flag, lastHost,
                   sgPc, nDrops, receiver, task>>

\* the application drops the receiver; the events it has not taken are lost
UiClose(p) ==
    /\ alive[p] /\ receiver[p] = "idle"
    /\ receiver' = [receiver EXCEPT ![p] = "closed"]
    /\ channel' = [channel EXCEPT ![p] = <<>>]
    /\ ui' = NoUi /\ NoReturn
    /\ UNCHANGED <<alive, joined, doc, blobs, stream, pending, flag, lastHost,
                   sgPc, nOps, nDrops, task>>

\* a game in play whose host application has not taken an event for a
\* while: the host has applied `held` actions of its own since it last
\* polled; the GameState events of all but the last are in the channel, the
\* local insert of the last game_state is the next event of its pipeline,
\* and behind it waits the first action of the client, which is in the room
\* and polls.  Actions are submitted, the client announces itself, the host
\* application takes events or drops the receiver.
HeldState(held) ==
    Entry(KEY_GAME_STATE, EncGameState([counter |-> initial_state(<<>>).counter + held]), held + 1)
FirstAction(p) == [Entry(<<PREFIX_ACTION, IdStr(p)>>, EncAction("Increment"), 1) EXCEPT !.author = p]
HeldEntries(held) ==
    {Entry(KEY_HOST_ID, IdBytes(Host), 1),
     Entry(KEY_APP_STATE, EncAppState("InGame"), 2),
     Entry(<<PREFIX_ACTION, IdStr(Host)>>, EncAction("Increment"), held),
     HeldState(held), FirstAction("c1")}
InitChannel ==
    \E held \in {ChannelCap, ChannelCap + 1} :
        /\ alive = [p \in Peers |-> p \notin Others]
        /\ joined = [p \in Peers |-> p \notin Others]
        /\ doc = [p \in Peers |-> IF p \in Others THEN {} ELSE HeldEntries(held)]
        /\ blobs = [p \in Peers |-> IF p \in Others THEN {} ELSE {e.val : e \in HeldEntries(held)}]
        /\ stream = [p \in Peers |->
                        IF p = Host
                        THEN <<InsertLocal(HeldState(held)),
                               InsertRemote(FirstAction("c1"), "Complete")>>
                        ELSE <<>>]
        /\ pending = [p \in Peers |-> {}]
        /\ flag = [p \in Peers |-> FALSE]
        /\ ui = NoUi
        /\ lastHost = [p \in Peers |-> "None"]
        /\ sgPc = [p \in Peers |-> [t \in Tasks |-> "idle"]]
        /\ nOps = 0
        /\ nDrops = 0
        /\ sgRet = NoRet
        /\ channel = [p \in Peers |->
                         IF p = Host
                         THEN [i \in 1..(held - 1) |-> UiGameState([counter |-> initial_state(<<>>).counter + i])]
                         ELSE <<>>]
        /\ receiver = [p \in Peers |-> IF p = Host THEN "idle" ELSE "polling"]
        /\ task = [p \in Peers |-> "running"]
NextChannel ==
    \/ \E p \in Peers : AnnouncePresence(p)
    \/ \E p \in Peers : SubmitAction(p, "Increment")
    \/ \E src, dst \in Peers : \E e \in doc[src] : Deliver(src, dst, e)
    \/ \E p \in Peers : \E e \in doc[p] : ContentArrives(p, e.val)
    \/ \E p \in Peers : PipeUpdate(p)
    \/ \E p \in Peers : PipeDefer(p)
    \/ \E p \in Peers : PipeContentReady(p)
    \/ \E p \in Peers : UiRecv(p)
    \/ \E p \in Peers : UiClose(p)

SpecChannel == InitChannel /\ [][NextChannel]_vars

\* the room after a hand-over: the creator had made the room (and, or not,
\* announced itself), the client joined and called claim_host, everything
\* has synced and every event has been handled.  The creator's GameRoom is
\* dropped and comes back, peers announce themselves or their leave; the
\* client, which host_id now names, handles the neighbor events of the
\* creator.
ClaimedEntries(announced) ==
    (IF announced THEN AnnouncedEntries ELSE CreateEntries)
        \cup {[Entry(KEY_HOST_ID, IdBytes("c1"), 2) EXCEPT !.author = "c1"]}
InitHandover ==
    \E announced \in BOOLEAN :
        /\ alive = [p \in Peers |-> p \notin Others]
        /\ joined = [p \in Peers |-> p \notin Others]
        /\ doc = [p \in Peers |-> IF p \in Others THEN {} ELSE ClaimedEntries(announced)]
        /\ blobs = [p \in Peers |->
                       IF p \in Others THEN {} ELSE {e.val : e \in ClaimedEntries(announced)}]
        /\ stream = [p \in Peers |-> <<>>]
        /\ pending = [p \in Peers |-> {}]
        /\ flag = [p \in Peers |-> FALSE]
        /\ ui = NoUi /\ UiPolled
        /\ lastHost = [p \in Peers |-> "None"]
        /\ sgPc = [p \in Peers |-> [t \in Tasks |-> "idle"]]
        /\ nOps = 0
        /\ nDrops = 0
        /\ sgRet = NoRet
NextHandover ==
    \/ \E p \in Peers : AnnouncePresence(p)
    \/ \E p \in Peers : AnnounceLeave(p)
    \/ \E p \in Peers : Drop(p)
    \/ \E p \in Peers : Rejoin(p)
    \/ \E src, dst \in Peers : \E e \in doc[src] : Deliver(src, dst, e)
    \/ \E p \in Peers : \E e \in doc[p] : ContentArrives(p, e.val)
    \/ \E p \in Peers : PipeUpdate(p)
    \/ \E p \in Peers : PipeDefer(p)
    \/ \E p \in Peers : PipeContentReady(p)
    \/ \E p \in Peers : PipeJoiner(p)
    \/ \E p \in Peers : PipeLeaver(p)

SpecHandover == InitHandover /\ [][NextHandover]_vars

\* the game in play with the host away: the game was started, two clients
\* joined and synced, then the host's GameRoom was dropped; the clients have
\* its NeighborDown to handle.  The clients submit their actions and chat
\* while the host is away, and the host comes back (GameRoom::join on its
\* store) once they have done so.
InitAway ==
    /\ alive = [p \in Peers |-> p # Host]
    /\ joined = [p \in Peers |-> TRUE]
    /\ doc = [p \in Peers |-> StartedEntries]
    /\ blobs = [p \in Peers |-> {e.val : e \in StartedEntries}]
    /\ stream = [p \in Peers |-> IF p = Host THEN <<>> ELSE <<NeighborDown(Host)>>]
    /\ pending = [p \in Peers |-> {}]
    /\ flag = [p \in Peers |-> FALSE]
    /\ ui = NoUi /\ UiPolled
    /\ lastHost = [p \in Peers |-> "None"]
    /\ sgPc = [p \in Peers |-> [t \in Tasks |-> "idle"]]
    /\ nOps = 0
    /\ nDrops = 1
    /\ sgRet = NoRet
RejoinAfterPlay(p) == nOps = MaxPlays /\ Rejoin(p)
NextAway ==
    \/ \E p \in Peers : SubmitAction(p, "Increment")
    \/ \E p \in Peers, ms \in Millis : SendChat(p, nOps + 1, ms)
    \/ \E p \in Peers : RejoinAfterPlay(p)
    \/ \E src, dst \in Peers : \E e \in doc[src] : Deliver(src, dst, e)
    \/ \E p \in Peers : \E e \in doc[p] : ContentArrives(p, e.val)
    \/ \E p \in Peers : PipeUpdate(p)
    \/ \E p \in Peers : PipeDefer(p)
    \/ \E p \in Peers : PipeContentReady(p)
    \/ \E p \in Peers : PipeJoiner(p)
    \/ \E p \in Peers : PipeLeaver(p)

SpecAway == InitAway /\ [][NextAway]_vars

\* ---------------------------------------------------------------- claims
\* start_game returned Err(..) to the caller
IsError(r) == r \notin {"none", "Ok"}

\* what the replica of p holds under app_state, the flag left aside
DocAppState(p) ==
    LET r == get_bytes(p, KEY_APP_STATE)
    IN CASE r.st = "err" -> Err("NetworkError")
         [] r.st = "none" -> Err("NoAppState")
         [] OTHER -> DecAppState(r.val)

\* the entry the pipeline of p hands to process_entry at its next event
Consumed(p) ==
    LET ev == Head(stream[p])
        parked == {f \in pending[p] : f.val = ev.entry.val}
    IN CASE ev.type = "InsertLocal" -> ev.entry
         [] ev.type = "InsertRemote" /\ ev.status = "Complete" -> ev.entry
         [] ev.type = "ContentReady" /\ parked # {} -> CHOOSE f \in parked : TRUE
         [] OTHER -> NoEntry

\* C1 (as stated): at every peer whose replica holds app_state = InGame a
\* read of game_state returns a value, whatever the order in which the
\* host's two entries arrive.  Stated for the behaviours in which the only
\* writes are those of create and start_game.
C1_InGameHasGameState ==
    \A p \in Peers :
        (alive[p] /\ nOps = 0 /\ DocAppState(p) = Ok("InGame")) => get_game_state(p).ok

\* C2: start_game by a peer that host_id on its replica does not name
\* returns an error, and the call writes nothing.
C2_NonHostStartFails ==
    [][\A p \in Peers, t \in Tasks, lg \in Logics :
          (StartGameCheck(p, t, lg) /\ get_host_id(p) # Ok(p))
              => /\ IsError(sgRet'[p])
                 /\ sgPc'[p][t] = "idle"
                 /\ doc' = doc]_vars
C2_Witness == alive["c1"] /\ sgRet["c1"] = "NotHost"

\* C3: start_game by the host while get_app_state is not Lobby returns an
\* error and leaves game_state and app_state as they were, so a game that
\* was started is not initialised again.
C3_StartedNotRestarted ==
    [][\A p \in Peers, t \in Tasks, lg \in Logics :
          (StartGameCheck(p, t, lg) /\ get_host_id(p) = Ok(p)
                /\ get_app_state(p) # Ok("Lobby"))
              => /\ IsError(sgRet'[p])
                 /\ sgPc'[p][t] = "idle"
                 /\ doc' = doc
                 /\ get_game_state(p)' = get_game_state(p)
                 /\ get_app_state(p)' = get_app_state(p)]_vars
C3_Witness ==
    /\ sgRet[Host] = "AlreadyStarted"
    /\ get_app_state(Host) = Ok("InGame")
    /\ get_game_state(Host) = Ok(initial_state(<<>>))

\* C4: when the start condition rejects, start_game returns that error and
\* writes nothing: app_state stays Lobby and no game_state entry appears.
C4_RejectedStartWritesNothing ==
    [][\A p \in Peers, t \in Tasks :
          (StartGameCheck(p, t, "MinTwo") /\ get_host_id(p) = Ok(p)
                /\ get_app_state(p) = Ok("Lobby")
                /\ Cardinality(DOMAIN get_peer_list(p)) < MinPlayers)
              => /\ sgRet'[p] = "NotEnoughPlayers"
                 /\ sgPc'[p][t] = "idle"
                 /\ doc' = doc
                 /\ get_app_state(p)' = Ok("Lobby")
                 /\ Latest(p, KEY_GAME_STATE)' = Latest(p, KEY_GAME_STATE)]_vars
C4_Witness ==
    /\ sgRet[Host] = "NotEnoughPlayers"
    /\ get_app_state(Host) = Ok("Lobby")
    /\ Latest(Host, KEY_GAME_STATE) = NoEntry

LeaverIsHost(p) ==
    /\ alive[p] /\ stream[p] # <<>>
    /\ Head(stream[p]).type = "NeighborDown"
    /\ Head(stream[p]).id # p
    /\ get_host_id(p) = Ok(Head(stream[p]).id)
JoinerIsHost(p) ==
    /\ alive[p] /\ stream[p] # <<>>
    /\ Head(stream[p]).type = "NeighborUp"
    /\ Head(stream[p]).id # p
    /\ get_host_id(p) = Ok(Head(stream[p]).id)
SentHost(p, sub) == \E i \in 1..Len(ui[p]) : ui[p][i].kind = "Host" /\ ui[p][i].sub = sub

\* C6 (as stated): processing the host's neighbor-down sets the flag and
\* emits Host(Offline), and get_app_state stops returning Paused only in a
\* step that emits Host(Online).
C6_PausedUntilOnline ==
    [][\A p \in Peers :
          /\ (PipeLeaver(p) /\ LeaverIsHost(p))
                => (flag'[p] /\ SentHost(p, "Offline")' /\ get_app_state(p)' = Ok("Paused"))
          /\ (alive[p] /\ alive'[p] /\ flag[p] /\ get_app_state(p)' # Ok("Paused"))
                => SentHost(p, "Online")']_vars

\* C6 (amended): processing the host's neighbor-down sets the flag and emits
\* Host(Offline); get_app_state then returns Paused until the pipeline
\* emits Host(Online) or processes a host_id entry (which clears the flag
\* and emits Host(Changed), or nothing when the new host's record cannot be
\* read).
C6_PausedUntilOnlineOrHostUpdate ==
    [][\A p \in Peers :
          /\ (PipeLeaver(p) /\ LeaverIsHost(p))
                => (flag'[p] /\ SentHost(p, "Offline")' /\ get_app_state(p)' = Ok("Paused"))
          /\ (alive[p] /\ alive'[p] /\ flag[p] /\ get_app_state(p)' # Ok("Paused"))
                => \/ SentHost(p, "Online")'
                   \/ /\ stream[p] # <<>>
                      /\ PipeUpdate(p) \/ PipeContentReady(p)
                      /\ Consumed(p).key = KEY_HOST_ID]_vars
C6_Witness ==
    /\ alive["c1"] /\ ~alive[Host] /\ flag["c1"]
    /\ SentHost("c1", "Offline")
    /\ get_app_state("c1") = Ok("Paused")

\* the peer record of id on p's replica is readable and says Online
DocSaysOnline(p, id) ==
    LET e == Latest(p, <<PREFIX_PEER, IdStr(id)>>)
    IN /\ e # NoEntry /\ HasContent(p, e)
       /\ DecPeerInfo(e.val).ok
       /\ DecPeerInfo(e.val).v.status = "Online"

C8_LeaveSeenAsOffline ==
    \A c \in Clients :
        (/\ alive[c] /\ alive[Host] /\ nDrops = 0
         /\ get_host_id(c) = Ok(Host)
         /\ get_bytes(c, <<PREFIX_QUIT, IdStr(Host)>>).st = "ok"
         /\ stream[c] = <<>> /\ pending[c] = {})
        => /\ lastHost[c] = "Offline"
           /\ get_app_state(c) = Ok("Paused")

\* C9: when a non-host pipeline processes the neighbor-up of the endpoint
\* host_id names, it clears the flag, emits Host(Online), and get_app_state
\* returns what the document holds again.
C9_HostBackOnline ==
    [][\A p \in Peers :
          (PipeJoiner(p) /\ JoinerIsHost(p))
              => /\ ~flag'[p]
                 /\ ui'[p] = <<UiHost("Online", UnknownPeer)>>
                 /\ get_app_state(p)' = DocAppState(p)'
                 /\ DocAppState(p)' = DocAppState(p)]_vars
C9_Witness ==
    /\ alive["c1"] /\ alive[Host] /\ nDrops > 0
    /\ SentHost("c1", "Online") /\ ~flag["c1"]
    /\ get_app_state("c1") = Ok("InGame")

\* the host_id entries held anywhere
HostIdEntries == {e \in UNION {doc[q] : q \in Peers} : e.key = KEY_HOST_ID}

Reached(p, e) == e \in doc[p]

\* the host has submitted no action: every state with a positive counter was
\* produced by accepting an action of a client, connected since it joined
OnlyClientsPlayed == Latest(Host, <<PREFIX_ACTION, IdStr(Host)>>) = NoEntry

\* C11: for every action the host accepts, every connected peer observes
\* one GameState event with the state apply_action produced; so the state an
\* accepted action produced is never replaced in the host's replica before
\* it has reached the replica of every connected peer
C11_AcceptedStateReachesPeers ==
    [][\A c \in Clients :
          (/\ alive[c] /\ OnlyClientsPlayed
           /\ get_game_state(Host).ok /\ get_game_state(Host).v.counter > 0
           /\ Latest(Host, KEY_GAME_STATE)' # Latest(Host, KEY_GAME_STATE))
          => Reached(c, Latest(Host, KEY_GAME_STATE))]_vars

\* the pipeline of p takes an entry to process_entry in this step
Processes(p) == alive[p] /\ stream[p] # <<>> /\ (PipeUpdate(p) \/ PipeContentReady(p))

\* the UI events sent by p in the step just taken include a Peer event whose
\* snapshot holds a record for id
SentPeerWith(p, id) ==
    \E i \in 1..Len(ui[p]) : ui[p][i].kind = "Peer" /\ id \in DOMAIN ui[p][i].data

\* C12: for every join request the host accepts, every peer that stays
\* connected emits a Peer event whose snapshot holds the record of the peer
\* that joined; so a pipeline that takes the entry of that record to
\* process_entry sends such an event
C12_RecordShownWhenProcessed ==
    [][\A p \in Peers, id \in Peers :
          (Processes(p) /\ Consumed(p).key = <<PREFIX_PEER, IdStr(id)>>)
              => SentPeerWith(p, id)']_vars

\* process_entry of p for an action request e gets an error from
\* apply_action under the logic lg
Rejects(p, e, lg) ==
    /\ e.key[1] = PREFIX_ACTION
    /\ is_host(p) = Ok(TRUE)
    /\ endpoint_id_from_str(e.key[2]).ok
    /\ get_game_state(p).ok
    /\ HasContent(p, e) /\ DecAction(e.val).ok
    /\ ~apply_action(lg, get_game_state(p).v, assign_roles(get_peer_list(p)),
                     endpoint_id_from_str(e.key[2]).v, DecAction(e.val).v).ok

\* C13: when apply_action returns an error for an action request, the host
\* writes nothing: game_state, and the whole replica, are after the entry
\* was processed what they were before.
C13_RejectedActionWritesNothing ==
    [][\A p \in Peers, dbg \in BOOLEAN, lg \in Logics :
          (/\ alive[p] /\ stream[p] # <<>>
           /\ Rejects(p, Consumed(p), lg)
           /\ Apply(p, process_entry(p, Consumed(p), dbg, lg)))
          => /\ get_game_state(p)' = get_game_state(p)
             /\ doc'[p] = doc[p]]_vars
C13_Witness ==
    /\ \E id \in Peers :
          LET e == Latest(Host, <<PREFIX_ACTION, IdStr(id)>>)
          IN e # NoEntry /\ HasContent(Host, e) /\ Rejects(Host, e, "MinTwo")
    /\ stream[Host] = <<>> /\ pending[Host] = {}
    /\ get_game_state(Host) = Ok([counter |-> 0])

\* the UI events p sent in the step just taken include an Error
SentError(p) == \E i \in 1..Len(ui[p]) : ui[p][i].kind = "Error"

\* C14: every failure while the pipeline processes an entry reaches the
\* local UI as an Error event; checked for the failure of an action that
\* apply_action rejects.
C14_FailureSentAsError ==
    [][\A p \in Peers, dbg \in BOOLEAN, lg \in Logics :
          (/\ alive[p] /\ stream[p] # <<>>
           /\ Rejects(p, Consumed(p), lg)
           /\ Apply(p, process_entry(p, Consumed(p), dbg, lg)))
          => SentError(p)']_vars

\* the payload of the entry e, content at hand, is not what the branch of
\* process_entry for its key decodes
PayloadFails(e) ==
    CASE e.key[1] = PREFIX_JOIN -> ~DecProfile(e.val).ok
      [] e.key[1] = PREFIX_ACTION -> ~DecAction(e.val).ok
      [] e.key[1] = PREFIX_CHAT -> ~DecChat(e.val).ok
      [] e.key[1] = PREFIX_PEER -> ~DecPeerInfo(e.val).ok
      [] e.key = KEY_GAME_STATE -> ~DecGameState(e.val).ok
      [] e.key = KEY_APP_STATE -> ~DecAppState(e.val).ok
      [] e.key = KEY_HOST_ID -> ~IdOfBytes(e.val).ok
      [] OTHER -> FALSE

\* C15: an entry whose payload fails to decode is skipped without effect:
\* the pipeline writes nothing to the document, changes no local flag and
\* keeps running.
C15_UndecodableSkipped ==
    [][\A p \in Peers, dbg \in BOOLEAN, lg \in Logics :
          (/\ alive[p] /\ stream[p] # <<>>
           /\ Consumed(p) # NoEntry /\ HasContent(p, Consumed(p))
           /\ PayloadFails(Consumed(p))
           /\ Apply(p, process_entry(p, Consumed(p), dbg, lg)))
          => /\ doc'[p] = doc[p]
             /\ flag'[p] = flag[p]
             /\ alive'[p]]_vars

\* process_entry of p accepts the join request e: p is the host, the key
\* names an endpoint and the profile decodes
JoinAccepted(p, e) ==
    /\ e.key[1] = PREFIX_JOIN
    /\ is_host(p) = Ok(TRUE)
    /\ endpoint_id_from_str(e.key[2]).ok
    /\ HasContent(p, e) /\ DecProfile(e.val).ok

\* C16: the peer record the host writes when it processes a Join has status
\* Online, and is_observer = true exactly when the document's app_state is
\* InGame at that moment.
C16_ObserverIffInGame ==
    [][\A p \in Peers, id \in Peers, dbg \in BOOLEAN, lg \in Logics :
          (/\ alive[p] /\ stream[p] # <<>>
           /\ JoinAccepted(p, Consumed(p))
           /\ Consumed(p).key[2] = IdStr(id)
           /\ Apply(p, process_entry(p, Consumed(p), dbg, lg)))
          => /\ get_peer_info(p, id)'.ok /\ get_peer_info(p, id)'.v.some
             /\ get_peer_info(p, id)'.v.info.status = "Online"
             /\ get_peer_info(p, id)'.v.info.is_observer
                   = (DocAppState(p) = Ok("InGame"))]_vars

\* the replica of p holds a peer record for id
HasRecord(p, id) == Latest(p, <<PREFIX_PEER, IdStr(id)>>) # NoEntry

\* C17: the peer set has one record per endpoint id, the record listed for
\* an id being the record of that id, and a record once present in a
\* replica is present in every later state of that replica: no step of any
\* peer (join, re-join, neighbor-up, neighbor-down, quit request,
\* start_game, drop) removes it.
C17_PeerRecordsKept ==
    [][\A p \in Peers :
          doc'[p] # doc[p] =>
              /\ \A id \in Peers : HasRecord(p, id) => HasRecord(p, id)'
              /\ \A e \in doc'[p] :
                    (e.key[1] = PREFIX_PEER /\ DecPeerInfo(e.val).ok)
                        => e.key[2] = IdStr(DecPeerInfo(e.val).v.id)]_vars
C17_Witness ==
    /\ HasRecord(Host, Host) /\ HasRecord("c1", Host)
    /\ Host \in DOMAIN get_peer_list("c1")
    /\ nDrops = 1 /\ alive[Host] /\ stream[Host] = <<>>
    /\ \E e \in doc[Host] : e.key[1] = PREFIX_QUIT \/ e.key[1] = PREFIX_JOIN

\* the chat messages the replica of p holds
ChatEntries(p) == {e \in doc[p] : e.key[1] = PREFIX_CHAT}

\* C18: every chat message sent is stored under a key of its own, so a
\* message stored in a replica stays there whatever is sent afterwards,
\* messages sent in the same millisecond included.
C18_ChatMessagesPersist ==
    [][\A p \in Peers : ChatEntries(p) \subseteq ChatEntries(p)']_vars

\* C19: claim_host is idempotent on the document: when host_id on the
\* replica of an endpoint names that endpoint, a further claim_host by it
\* leaves the value of host_id what it was, the id of that endpoint.
C19_ClaimHostIdempotent ==
    [][\A p \in Peers :
          (ClaimHost(p) /\ get_host_id(p) = Ok(p))
              => /\ get_host_id(p)' = Ok(p)
                 /\ Latest(p, KEY_HOST_ID)'.val = Latest(p, KEY_HOST_ID).val
                 /\ Latest(p, KEY_HOST_ID)'.author = p]_vars
C19_Witness ==
    \E p \in Peers :
        /\ get_host_id(p) = Ok(p)
        /\ Latest(p, KEY_HOST_ID).ts > 1
        /\ \A e \in doc[p] : e.key = KEY_HOST_ID => e.author = Host
        /\ nOps = 1

\* nothing has been written to the room but what create wrote and what the
\* creator's announce_presence brings about
OnlyCreatorAnnounced ==
    \A q \in Peers : \A e \in doc[q] :
        \/ e \in CreateEntries
        \/ e.key \in {<<PREFIX_JOIN, IdStr(Host)>>, <<PREFIX_PEER, IdStr(Host)>>}

\* C20: on the peer that created the room, the writes of app_state = Lobby
\* and host_id made by create produce no UI event: as long as the creator's
\* announce_presence is all that happened, every UI event on the creator's
\* stream, the first one included, is a Peer event whose snapshot holds the
\* host and nobody else.
C20_FirstEventIsPeerOfHost ==
    [][(OnlyCreatorAnnounced' /\ ui'[Host] # <<>>)
          => /\ Len(ui'[Host]) = 1
             /\ ui'[Host][1].kind = "Peer"
             /\ DOMAIN ui'[Host][1].data = {Host}]_vars
C20_Witness ==
    /\ OnlyCreatorAnnounced
    /\ Len(ui[Host]) = 1 /\ ui[Host][1].kind = "Peer"
    /\ DOMAIN ui[Host][1].data = {Host}
    /\ DocAppState(Host) = Ok("Lobby")

\* the host has announced itself: its own replica holds its peer record,
\* written when it accepted its own join request
HostAnnounced ==
    /\ get_peer_info(Host, Host).ok /\ get_peer_info(Host, Host).v.some
    /\ get_peer_info(Host, Host).v.info.nickname = Nick(Host)

\* C21: every Host(Changed{to}) event a client emits when it processes a
\* host_id entry naming the host carries the nickname the host announced,
\* whichever of the host_id entry and the host's peer record reached the
\* client's replica first.
C21_ChangedCarriesNickname ==
    \A c \in Clients : \A i \in 1..Len(ui[c]) :
        (/\ ui[c][i].kind = "Host" /\ ui[c][i].sub = "Changed"
         /\ get_host_id(c) = Ok(Host)
         /\ HostAnnounced)
        => /\ ui[c][i].data.some
           /\ ui[c][i].data.info.nickname = Nick(Host)

\* the record of the host that the replica of p holds
HostRecord(p) == Latest(p, <<PREFIX_PEER, IdStr(Host)>>)

\* the UI events p sent in the step just taken include a Peer event that
\* lists the host with status Offline
ReportsHostOffline(p) ==
    \E i \in 1..Len(ui[p]) :
        /\ ui[p][i].kind = "Peer"
        /\ Host \in DOMAIN ui[p][i].data
        /\ ui[p][i].data[Host].status = "Offline"

\* C22: once the host has gone without handing over, no remaining peer
\* writes the host's peer record (a replica that holds it holds what the
\* host last wrote) and no remaining client is sent a Peer event that
\* reports the host with status Offline.
C22_HostRecordUntouched ==
    [][\A p \in Peers \ {Host} :
          (alive[p] /\ ~alive[Host] /\ ~alive'[Host])
              => /\ HostRecord(p)' # NoEntry => HostRecord(p)' = HostRecord(Host)
                 /\ ~ReportsHostOffline(p)']_vars

\* C23: every remote insert deferred for its content is released as an
\* Update when ContentReady fires for its hash and no deferred entry is
\* lost: an entry leaves the pending table only in the step that consumes
\* the ContentReady of its hash and hands that entry to process_entry, also
\* when two deferred entries carry the same content hash.
C23_DeferredReleasedOnce ==
    [][\A p \in Peers :
          (alive[p] /\ alive'[p]) =>
              \A f \in pending[p] \ pending'[p] :
                  /\ stream[p] # <<>>
                  /\ Head(stream[p]).type = "ContentReady"
                  /\ Head(stream[p]).entry.val = f.val
                  /\ Consumed(p) = f]_vars

\* the event the pipeline of p turns to next is an insert
HeadIsInsert(p) ==
    /\ alive[p] /\ stream[p] # <<>>
    /\ Head(stream[p]).type \in {"InsertLocal", "InsertRemote"}

\* C24: every entry handed to process_entry has its payload in the local
\* blob store at that moment: an insert whose content is not at hand is not
\* dispatched as an Update, and the entry a ContentReady releases has its
\* content at hand.
C24_DispatchedHasPayload ==
    [][\A p \in Peers :
          /\ (HeadIsInsert(p) /\ ~HasContent(p, Head(stream[p]).entry)) => ~PipeUpdate(p)
          /\ (/\ alive[p] /\ stream[p] # <<>>
              /\ Head(stream[p]).type = "ContentReady"
              /\ Consumed(p) # NoEntry
              /\ PipeContentReady(p))
             => HasContent(p, Consumed(p))]_vars
C24_Witness ==
    /\ alive["c1"] /\ Len(ui["c1"]) = 1
    /\ ui["c1"][1] = UiGameState(initial_state(<<>>))
    /\ Latest("c1", KEY_GAME_STATE).author = Host
    /\ HasContent("c1", Latest("c1", KEY_GAME_STATE))
    /\ pending["c1"] = {}

\* process_entry of p for an action request e has apply_action accept it
\* under the logic lg
Accepts(p, e, lg) ==
    /\ e.key[1] = PREFIX_ACTION
    /\ is_host(p) = Ok(TRUE)
    /\ endpoint_id_from_str(e.key[2]).ok
    /\ get_game_state(p).ok
    /\ HasContent(p, e) /\ DecAction(e.val).ok
    /\ apply_action(lg, get_game_state(p).v, assign_roles(get_peer_list(p)),
                    endpoint_id_from_str(e.key[2]).v, DecAction(e.val).v).ok

\* C25: the game_state of the document is apply_action folded over the
\* actions the host accepted, in the order its pipeline processed them, from
\* the state start_game wrote: each accepted Increment leaves the counter
\* one above the state written for the previous one, and no other step
\* changes the game_state the host reads.
C25_ActionsFold ==
    [][/\ \A dbg \in BOOLEAN, lg \in Logics :
             (/\ alive[Host] /\ stream[Host] # <<>>
              /\ Accepts(Host, Consumed(Host), lg)
              /\ Apply(Host, process_entry(Host, Consumed(Host), dbg, lg)))
             => get_game_state(Host)' = Ok([counter |-> get_game_state(Host).v.counter + 1])
       /\ (doc'[Host] # doc[Host] /\ get_game_state(Host)' # get_game_state(Host))
             => /\ alive[Host] /\ stream[Host] # <<>>
                /\ \E lg \in Logics : Accepts(Host, Consumed(Host), lg)
                /\ get_game_state(Host)'
                      = Ok([counter |-> get_game_state(Host).v.counter + 1])]_vars
C25_Witness ==
    /\ get_game_state(Host) = Ok([counter |-> initial_state(<<>>).counter + 2])
    /\ stream[Host] = <<>> /\ pending[Host] = {}
    /\ nOps = 2

\* C26: of two overlapping start_game calls on the host at most one makes
\* the writes: no call writes the initial game_state once app_state = InGame
\* has been written or once the host has applied an action (the game_state
\* it reads is no longer the initial one).
C26_StartWritesOnce ==
    [][\A t \in Tasks :
          (sgPc[Host][t] = "set_game_state" /\ StartGameSetGameState(Host, t))
              => /\ DocAppState(Host) # Ok("InGame")
                 /\ get_game_state(Host).ok
                       => get_game_state(Host).v = initial_state(<<>>)]_vars

\* the entries p has authored under the keys only the host writes from its
\* pipeline: peer records and game_state
PipelineWrites(p) ==
    {e \in doc[p] : e.author = p /\ (e.key[1] = PREFIX_PEER \/ e.key = KEY_GAME_STATE)}

\* C27: a peer that host_id on its own replica does not name (is_host() is
\* false or fails) writes nothing when its pipeline processes a Join or an
\* ActionRequest; peer records and game_state are written from the pipeline
\* only by the peer whose id equals host_id on its own replica.
C27_NonHostWritesNothing ==
    [][\A p \in Peers :
          /\ \A dbg \in BOOLEAN, lg \in Logics :
                (/\ alive[p] /\ stream[p] # <<>>
                 /\ Consumed(p).key[1] \in {PREFIX_JOIN, PREFIX_ACTION}
                 /\ get_host_id(p) # Ok(p)
                 /\ Apply(p, process_entry(p, Consumed(p), dbg, lg)))
                => doc'[p] = doc[p] /\ blobs'[p] = blobs[p]
          /\ PipelineWrites(p)' # PipelineWrites(p) => get_host_id(p) = Ok(p)]_vars
C27_Witness ==
    /\ alive["c1"] /\ get_host_id("c1") = Ok(Host)
    /\ stream["c1"] = <<>> /\ pending["c1"] = {}
    /\ get_game_state("c1").ok
    /\ HasContent("c1", Latest("c1", <<PREFIX_JOIN, IdStr("c1")>>))
    /\ HasContent("c1", Latest("c1", <<PREFIX_ACTION, IdStr("c1")>>))
    /\ PipelineWrites("c1") = {}
    /\ PipelineWrites(Host) # {}

\* C28 (as stated): the host_disconnected flag of a running peer changes
\* value only when its pipeline processes the neighbor-up or neighbor-down
\* of the endpoint host_id names; processing any other event, a host_id
\* entry included, leaves it unchanged.
C28_FlagOnlyByNeighborEvents ==
    [][\A p \in Peers :
          (alive[p] /\ alive'[p] /\ flag'[p] # flag[p])
              => \/ PipeLeaver(p) /\ LeaverIsHost(p)
                 \/ PipeJoiner(p) /\ JoinerIsHost(p)]_vars

\* C28 (amended): the flag of a running peer changes value only when its
\* pipeline processes the neighbor-down of the endpoint host_id names (set),
\* the neighbor-up of that endpoint (cleared), or a host_id entry whose
\* content is at hand (cleared); processing a peer, app_state, game_state or
\* any other entry, and every step that is not the pipeline's, leaves it
\* unchanged.
C28_FlagByNeighborOrHostUpdate ==
    [][\A p \in Peers :
          (alive[p] /\ alive'[p] /\ flag'[p] # flag[p])
              => \/ PipeLeaver(p) /\ LeaverIsHost(p) /\ flag'[p]
                 \/ PipeJoiner(p) /\ JoinerIsHost(p) /\ ~flag'[p]
                 \/ /\ stream[p] # <<>>
                    /\ PipeUpdate(p) \/ PipeContentReady(p)
                    /\ Consumed(p).key = KEY_HOST_ID
                    /\ HasContent(p, Consumed(p))
                    /\ ~flag'[p]]_vars
C28_Witness ==
    /\ alive["c1"] /\ ~alive[Host] /\ nOps = 1
    /\ IdBytes(Host) \in blobs["c1"]
    /\ Latest("c1", KEY_HOST_ID).author = "c1"
    /\ Len(ui["c1"]) = 1 /\ ui["c1"][1].kind = "Host" /\ ui["c1"][1].sub = "Changed"
    /\ ~flag["c1"]

\* the replica of p holds a host_id entry that names id
HoldsHostId(p, id) ==
    /\ Latest(p, KEY_HOST_ID) # NoEntry
    /\ Latest(p, KEY_HOST_ID).val = IdBytes(id)

\* the pipeline of p has processed every neighbor signal it received
NoSignalWaiting(p) ==
    \A i \in 1..Len(stream[p]) : stream[p][i].type \notin {"NeighborUp", "NeighborDown"}

\* C29: at a non-host peer whose replica holds a host_id, the flag is clear
\* only if the last neighbor signal it received for the endpoint host_id
\* names was not a neighbor-down.  Where nobody rejoins, the last signal a
\* running client received for the host is a neighbor-down exactly when the
\* host is gone; so once that signal is processed the flag is set.
C29_DepartureNotMissed ==
    \A c \in Clients :
        (/\ alive[c] /\ ~alive[Host]
         /\ HoldsHostId(c, Host)
         /\ NoSignalWaiting(c))
        => flag[c]

\* the keys only the host is meant to write
Authoritative(k) ==
    k \in {KEY_APP_STATE, KEY_GAME_STATE, KEY_HOST_ID} \/ k[1] = PREFIX_PEER

\* C30: an entry under an authoritative key written by a peer that is not
\* the host (host_id names another endpoint than its author) is ignored by
\* the pipeline of every peer that processes it: no UI event is sent, the
\* flag and the replica stay as they were.
C30_NonHostWritesIgnored ==
    [][\A p \in Peers, dbg \in BOOLEAN, lg \in Logics :
          (/\ alive[p] /\ stream[p] # <<>>
           /\ Consumed(p) # NoEntry
           /\ Authoritative(Consumed(p).key)
           /\ get_host_id(p).ok /\ get_host_id(p).v # Consumed(p).author
           /\ Apply(p, process_entry(p, Consumed(p), dbg, lg)))
          => /\ ui'[p] = <<>>
             /\ flag'[p] = flag[p]
             /\ doc'[p] = doc[p]]_vars

\* the number of submit_action writes p has made: the rank of its latest
\* action entry among the writes to its action key
Submitted(p) == Latest(p, <<PREFIX_ACTION, IdStr(p)>>).ts
RECURSIVE SubmittedBy(_)
SubmittedBy(S) ==
    IF S = {} THEN 0
    ELSE LET p == CHOOSE q \in S : TRUE IN Submitted(p) + SubmittedBy(S \ {p})

\* the inserts of entries the pipeline of p has still to dispatch
InFlight(p) ==
    {i \in 1..Len(stream[p]) : stream[p][i].type \in {"InsertLocal", "InsertRemote"}}

\* C31: the host applies each action entry at most once.  Every apply adds
\* one to the counter, so the counter the host holds never exceeds the
\* number of action entries written (with one entry written, apply_action
\* has run at most once), and no entry is in the host's pipeline twice,
\* neither as two inserts nor as an insert and a parked entry.
C31_AppliedAtMostOnce ==
    /\ get_game_state(Host).ok
          => get_game_state(Host).v.counter <= initial_state(<<>>).counter + SubmittedBy(Peers)
    /\ \A i, j \in InFlight(Host) : stream[Host][i].entry = stream[Host][j].entry => i = j
    /\ \A i \in InFlight(Host) : stream[Host][i].entry \notin pending[Host]
C31_Witness ==
    /\ Submitted(Host) = 1 /\ Submitted("c1") = 1
    /\ get_game_state(Host) = Ok([counter |-> initial_state(<<>>).counter + 2])
    /\ stream[Host] = <<>> /\ pending[Host] = {}
    /\ Latest(Host, <<PREFIX_ACTION, IdStr("c1")>>) # NoEntry

\* C32 (as stated): the host applies an action request only while the
\* app_state of the document is InGame: whenever its pipeline consumes an
\* action request and writes, its replica holds app_state = InGame, so no
\* action changes game_state in the lobby (the window of start_game between
\* its two writes included) nor once the game is Finished.
C32_AppliedOnlyInGame ==
    [][\A dbg \in BOOLEAN, lg \in Logics :
          (/\ alive[Host] /\ stream[Host] # <<>>
           /\ Consumed(Host).key[1] = PREFIX_ACTION
           /\ Apply(Host, process_entry(Host, Consumed(Host), dbg, lg))
           /\ doc'[Host] # doc[Host])
          => DocAppState(Host) = Ok("InGame")]_vars

IsPrefix(s, t) == Len(s) <= Len(t) /\ SubSeq(t, 1, Len(s)) = s

\* the UI events the pipeline of p sends when it handles the event at the
\* head of its stream
HeadEmits(p) ==
    LET ev == Head(stream[p])
    IN CASE ev.type = "NeighborUp" -> {on_joiner(p, ev.id).emit}
         [] ev.type = "NeighborDown" -> {on_leaver(p, ev.id).emit}
         [] Consumed(p) = NoEntry -> {<<>>}
         [] OTHER -> {process_entry(p, Consumed(p), dbg, lg).emit :
                         dbg \in BOOLEAN, lg \in Logics}

\* C34: the pipeline of a peer handles its events strictly in the order
\* the substrate delivered them: an event leaves the stream only at its
\* head, new events queue behind the ones waiting, an entry is parked or
\* released only by the step that handles the head event (a parked entry
\* is handled at the position of its ContentReady), and every step sends
\* the consumer at most one UI event, the one the head event causes, so
\* the consumer sees the UI events in the order of the events behind them.
C34_InDeliveryOrder ==
    [][\A p \in Peers :
          /\ stream'[p] # stream[p]
                => \/ IsPrefix(stream[p], stream'[p])
                   \/ stream[p] # <<>> /\ IsPrefix(Tail(stream[p]), stream'[p])
          /\ (pending'[p] # pending[p] \/ ui'[p] # <<>>)
                => /\ stream[p] # <<>> /\ IsPrefix(Tail(stream[p]), stream'[p])
                   /\ Len(ui'[p]) <= 1
                   /\ ui'[p] \in HeadEmits(p)]_vars
C34_Witness ==
    /\ ui["c1"] # <<>> /\ ui["c1"][1].kind = "GameState"
    /\ pending["c1"] # {}
    /\ \E e \in pending["c1"] : e.key = KEY_HOST_ID

\* the pipeline of p is waiting inside sender.send: the channel is full and
\* the event it is handling has a UI event to send
Blocked(p) ==
    /\ alive[p] /\ task[p] = "running" /\ receiver[p] = "idle"
    /\ Len(channel[p]) = 32
    /\ stream[p] # <<>> /\ <<>> \notin HeadEmits(p)

\* C35: the UI event channel of a peer never holds more than 32 events.
\* While it is full and the pipeline has an event to send, the pipeline
\* handles no event (its stream keeps its head, nothing is parked or
\* released, it writes nothing, the flag stays) until the consumer takes an
\* event, and the next change of the channel is that take or the closing of
\* the receiver.  No event is dropped: an event sent to a receiver that is
\* held is appended to the channel, and events leave the channel only at
\* its head, taken by the consumer, unless the receiver is dropped.
C35_ChannelBoundedAndBlocking ==
    [][\A p \in Peers :
          /\ Len(channel[p]) <= 32 /\ Len(channel'[p]) <= 32
          /\ Blocked(p)
                => /\ channel'[p] # channel[p]
                         => channel'[p] = Tail(channel[p]) \/ receiver'[p] = "closed"
                   /\ channel'[p] = channel[p]
                         => /\ IsPrefix(stream[p], stream'[p])
                            /\ pending'[p] = pending[p] /\ flag'[p] = flag[p]
                            /\ PipelineWrites(p)' = PipelineWrites(p)
          /\ (receiver[p] = "idle" /\ ui'[p] # <<>>) => channel'[p] = channel[p] \o ui'[p]
          /\ (receiver'[p] = "idle" /\ channel'[p] # channel[p])
                => \/ ui'[p] # <<>> /\ channel'[p] = channel[p] \o ui'[p]
                   \/ channel'[p] = Tail(channel[p])]_vars
C35_Witness ==
    /\ Blocked(Host)
    /\ channel[Host][32] = UiGameState([counter |-> initial_state(<<>>).counter + 32])
    /\ Head(stream[Host]).entry.key = KEY_GAME_STATE
    /\ get_game_state(Host) = Ok([counter |-> initial_state(<<>>).counter + 33])
    /\ nOps >= 1

\* C36: once the receiver of a peer is closed, the step of its pipeline
\* that next has a UI event to send ends the pipeline task; a peer whose
\* task has ended handles no event any more, so join requests and action
\* requests stay in its stream and it writes no peer record and no
\* game_state, the host included.
C36_ClosedReceiverEndsPipeline ==
    [][\A p \in Peers :
          /\ (/\ alive[p] /\ task[p] = "running" /\ receiver[p] = "closed"
              /\ stream[p] # <<>> /\ <<>> \notin HeadEmits(p)
              /\ stream'[p] # stream[p] /\ ~IsPrefix(stream[p], stream'[p]))
                => task'[p] = "finished"
          /\ (task[p] = "running" /\ task'[p] = "finished")
                => receiver[p] = "closed" /\ <<>> \notin HeadEmits(p)
          /\ task[p] = "finished"
                => /\ task'[p] = "finished"
                   /\ IsPrefix(stream[p], stream'[p])
                   /\ pending'[p] = pending[p] /\ flag'[p] = flag[p]
                   /\ PipelineWrites(p)' = PipelineWrites(p)
                   /\ ui'[p] = <<>>]_vars
C36_Witness ==
    /\ task[Host] = "finished" /\ get_host_id(Host) = Ok(Host)
    /\ stream[Host] # <<>>
    /\ Head(stream[Host]).type = "InsertRemote"
    /\ Head(stream[Host]).entry.key[1] \in {PREFIX_JOIN, PREFIX_ACTION}
    /\ HasContent(Host, Head(stream[Host]).entry)

\* the entries of p's replica under keys other than k
Besides(p, k) == {e \in doc[p] : e.key # k}

\* C37: when a peer that host_id names as host handles neighbor-up
\* (neighbor-down) of an endpoint whose peer record it can read, it rewrites
\* that record with status Online (Offline), every other field as it was,
\* and touches no other key; for an endpoint without a record it writes
\* nothing.  A peer record appears under a key that had none, written by
\* the peer itself, only in the step that handles the join request of that
\* endpoint.
C37_StatusRewrittenOnly ==
    [][\A p \in Peers, id \in Peers :
          /\ \A st \in {"Online", "Offline"} :
                (/\ alive[p] /\ stream[p] # <<>>
                 /\ Head(stream[p]).type = (IF st = "Online" THEN "NeighborUp" ELSE "NeighborDown")
                 /\ Head(stream[p]).id = id
                 /\ get_host_id(p) = Ok(p)
                 /\ (PipeJoiner(p) \/ PipeLeaver(p)))
                => IF get_peer_info(p, id).ok /\ get_peer_info(p, id).v.some
                   THEN /\ get_peer_info(p, id)'
                              = Ok([some |-> TRUE,
                                    info |-> [get_peer_info(p, id).v.info EXCEPT !.status = st]])
                        /\ Latest(p, <<PREFIX_PEER, IdStr(id)>>)'.author = p
                        /\ Latest(p, <<PREFIX_PEER, IdStr(id)>>)'.ts
                              > Latest(p, <<PREFIX_PEER, IdStr(id)>>).ts
                        /\ Besides(p, <<PREFIX_PEER, IdStr(id)>>)'
                              = Besides(p, <<PREFIX_PEER, IdStr(id)>>)
                   ELSE doc'[p] = doc[p] /\ blobs'[p] = blobs[p]
          /\ (/\ ~HasRecord(p, id) /\ HasRecord(p, id)'
              /\ Latest(p, <<PREFIX_PEER, IdStr(id)>>)'.author = p)
                => /\ stream[p] # <<>>
                   /\ Consumed(p).key = <<PREFIX_JOIN, IdStr(id)>>]_vars
C37_Witness ==
    /\ get_host_id("c1") = Ok("c1") /\ alive["c1"] /\ ~alive[Host]
    /\ stream["c1"] = <<>>
    /\ Latest("c1", <<PREFIX_PEER, IdStr(Host)>>).author = "c1"
    /\ get_peer_info("c1", Host)
          = Ok([some |-> TRUE,
                info |-> [PeerInfoNew(Host, [nickname |-> Nick(Host)]) EXCEPT !.status = "Offline"]])
    /\ ~HasRecord("c1", "c2")

ActionsOf(p, q) == {e \in doc[p] : e.key[1] = PREFIX_ACTION /\ e.author = q}

\* the peers that have submitted an action
Submitters == {q \in Peers : ActionsOf(q, q) # {}}

\* C39 (as stated): a replica holds at most one action entry per peer.  When
\* the peers have made their submissions while the host was away, the host,
\* back, sees and applies one action per submitting peer, its last: the
\* action entry of a peer that the host's pipeline is handed is the last
\* one that peer submitted, and the counter is never more than one per
\* submitter above the state the host left.
C39_OnlyLastActionApplied ==
    /\ \A p, q \in Peers : Cardinality(ActionsOf(p, q)) <= 1
    /\ \A i \in InFlight(Host) :
          stream[Host][i].entry.key[1] = PREFIX_ACTION
              => stream[Host][i].entry \in ActionsOf(stream[Host][i].entry.author,
                                                      stream[Host][i].entry.author)
    /\ get_game_state(Host).v.counter <= initial_state(<<>>).counter + Cardinality(Submitters)

\* the place of an app_state value in the order Lobby, InGame, Finished
Rank(a) == CASE a = "Lobby" -> 1 [] a = "InGame" -> 2 [] a = "Finished" -> 3 [] OTHER -> 0

\* C40 (as stated): the value a replica holds under app_state is never
\* Paused, and on every replica it only moves forward, Lobby, InGame,
\* Finished: a replica that holds InGame never holds Lobby again.
C40_AppStateMovesForward ==
    [][\A p \in Peers :
          (DocAppState(p).ok /\ DocAppState(p)'.ok)
              => /\ DocAppState(p)'.v # "Paused"
                 /\ Rank(DocAppState(p).v) <= Rank(DocAppState(p)'.v)]_vars

====
